---------------------------- MODULE Spec2Model ----------------------------
(***************************************************************************)
(* NPG-Lite-Flasher-Web: the ESP32Flasher component.                       *)
(*                                                                         *)
(* The parts of the component are modelled each with a specification of   *)
(* its own over the one set of variables:                                  *)
(*   SessionSpec  connectToDevice / disconnectDevice / flashFirmware and   *)
(*                the buttons that invoke them, interleaved at every await *)
(*   StoreSpec    the IndexedDB firmware store (openDB, saveFirmwareToDB,  *)
(*                resetDatabase, getFirmwareFromDB, deleteFirmwareFromDB)  *)
(*   FetchSpec    fetchGithubReleases and its fallback chain               *)
(*   CoordSpec    the handlers that write the store: the mount effect,     *)
(*                handleFileUpload, downloadGithubFirmware                 *)
(*   ClearSpec    clearAllFirmwares among saves and gets                   *)
(*   RemoveSpec   loadFirmwareFromStorage, deleteFirmwareFromStorage and   *)
(*                clearAllFirmwares on a store of two firmwares            *)
(*   OverlapSpec  downloadGithubFirmware calls that overlap                *)
(*   ScenarioSpec a first flash of a local file, every call succeeding     *)
(***************************************************************************)
EXTENDS Integers, Sequences, FiniteSets, TLC

(***************************************************************************)
(* Bounds of the model.                                                    *)
(***************************************************************************)
\* connectToDevice calls that may be pending at the same time
MaxConnectCalls == 2
\* disconnectDevice calls that may be pending at the same time
MaxDisconnectCalls == 1
\* largest `total` the loader reports to reportProgress
MaxTotal == 3
\* largest value of the clock read by Date.now()
MaxClock == 1
\* downloadGithubFirmware calls that may be pending at the same time
MaxDownloadCalls == 1

NULL == "null"
NoFile == "nofile"

(***************************************************************************)
(* The environment of the session: the serial port the user can grant,     *)
(* the chip the handshake reports, the selectable firmware files and the   *)
(* texts typed into the address field.  A text is a sequence of            *)
(* one-character strings.  A Transport and an ESPLoader are identified     *)
(* with the port they wrap.                                                *)
(***************************************************************************)
Ports == {"portA"}
Chips == {"ESP32-C6"}
Files == {"app.bin"}

\* the names and the contents of firmware binaries: a content is a byte
\* length and an identity among the contents of that length
Names == {"app.bin", "npg.bin"}
Blobs == {[len |-> 512, id |-> 1], [len |-> 512, id |-> 2], [len |-> 2048, id |-> 1]}
\* the null a lookup of an absent record resolves with
NullBlob == [len |-> -1, id |-> 0]

Addr10000 == <<"0", "x", "1", "0", "0", "0", "0">>
AddrPadded == <<" ", "0", "x", "1", "F", " ">>
AddrNoDigits == <<"0", "x">>
AddrBadTail == <<"0", "x", "1", "g">>
AddrInputs == {Addr10000, AddrPadded, AddrNoDigits, AddrBadTail}

VARIABLES
    \* ---- session: React state and refs of ESP32Flasher
    isConnected, isFlashing, progress, chipInfo, firmwareFile, flashAddress,
    transportRef, espLoaderRef, serialPortRef,
    \* ---- session: environment and the position of each pending call
    serialSupported,    \* navigator.serial.requestPort exists
    portOpen,           \* port -> its `readable` is non-null (the port is open)
    pending,            \* the button the user has just clicked, not yet dispatched
    conn,               \* call -> [pc, port]: pending connectToDevice calls
    disc,               \* call -> [pc, port]: pending disconnectDevice calls
    flash,              \* the flashFirmware call: [pc, loader, address, port, total, written]
    flashOutcome,       \* terminal outcome logged by the latest flashFirmware call
    flashIO,            \* DeviceLink calls issued so far by the pending flashFirmware call
    \* ---- store: the IndexedDB database ESP32FlasherDB
    dbVersion,          \* 0: the database does not exist; else its version
    hasStore,           \* the object store 'firmwares' exists
    records,            \* the records of the object store
    connections,        \* some connection to the database is open
    deletePending,      \* a deleteDatabase was blocked and has not yet happened
    now,                \* Date.now()
    \* ---- store: the position and the results of each call
    save,               \* the saveFirmwareToDB call: [pc, name, data]
    saveTrace,          \* of the latest save call: [firstFault, retryFault, resets, puts]
    saveOutcome,        \* how the latest save call settled
    get,                \* the getFirmwareFromDB call: [pc, name]
    getResult,          \* of the latest get call: [outcome, name, data]
    del,                \* the deleteFirmwareFromDB call: [pc, name]
    delOutcome,         \* how the latest delete call settled
    lastWrite,          \* name -> the last write to it that settled (for the properties)
    \* ---- releases: React state
    githubFirmwares,    \* the candidates of the latest successful fetch
    isFetchingGithub,
    showGithubDialog,
    \* ---- releases: the position and the results of the call
    fetch,              \* the fetchGithubReleases call: [pc, releasesData]
    fetchLog,           \* the requests of the latest call, each with its response
    fetchOutcome,       \* how the latest call ended
    \* ---- coordinator: React state
    localFirmwares,     \* the listing of the cached firmwares
    \* ---- coordinator: the position and the results of each handler
    mount,              \* the loadLocalFirmwares call of the mount effect: [pc]
    upload,             \* the handleFileUpload pipeline: [pc, name, data]
    uploadOutcome,      \* how the latest handleFileUpload ended
    saveCaller,         \* the handler that awaits the saveFirmwareToDB call
    clear,              \* the clearAllFirmwares call: [pc, event, listed]
    clearOutcome,       \* how the latest clearAllFirmwares ended
    downloadingFirmware,\* React state: the name being downloaded, or null
    download,           \* call -> [pc, name]: downloadGithubFirmware calls
    downloadOutcome,    \* call -> how the call ended
    remove,             \* the deleteFirmwareFromStorage call: [pc, name, selected]
    removeOutcome,      \* how the latest deleteFirmwareFromStorage ended
    load                \* the loadFirmwareFromStorage call: [pc, name]

refVars == <<transportRef, espLoaderRef, serialPortRef>>
linkVars == <<transportRef, espLoaderRef, serialPortRef, isConnected, chipInfo>>
sessionVars == <<isConnected, isFlashing, progress, chipInfo, firmwareFile,
                 flashAddress, transportRef, espLoaderRef, serialPortRef,
                 serialSupported, portOpen, pending, conn, disc, flash,
                 flashOutcome, flashIO>>
storeVars == <<dbVersion, hasStore, records, connections, deletePending, now, save,
               saveTrace, saveOutcome, get, getResult, del, delOutcome,
               lastWrite>>
fetchVars == <<githubFirmwares, isFetchingGithub, showGithubDialog, fetch,
               fetchLog, fetchOutcome>>
uploadVars == <<upload, uploadOutcome>>
clearVars == <<clear, clearOutcome>>
downloadVars == <<downloadingFirmware, download, downloadOutcome>>
removeVars == <<remove, removeOutcome, load>>
coordVars == <<localFirmwares, mount, uploadVars, saveCaller, clearVars,
               downloadVars, removeVars>>
\* the session but for the selected firmware, which the coordinator sets
sessionRest == <<isConnected, isFlashing, progress, chipInfo, flashAddress,
                 transportRef, espLoaderRef, serialPortRef, serialSupported,
                 portOpen, pending, conn, disc, flash, flashOutcome, flashIO>>
\* the store: the database, and the calls
dbVars == <<dbVersion, hasStore, records, connections, deletePending, lastWrite>>
saveVars == <<save, saveTrace, saveOutcome>>
callVars == <<now, saveVars, get, getResult, del, delOutcome>>
\* the variables that are not those of the session, of the store, of the
\* release fetcher
outsideSession == <<storeVars, fetchVars, coordVars>>
outsideStore == <<sessionVars, fetchVars, coordVars>>
outsideFetch == <<sessionVars, storeVars, coordVars>>
vars == <<sessionVars, storeVars, fetchVars, coordVars>>

(***************************************************************************)
(* flashFirmware's address check: trim, the regular expression, parseInt.  *)
(***************************************************************************)
WhiteSpace == {" ", "\t", "\n"}
DecDigits == <<"0", "1", "2", "3", "4", "5", "6", "7", "8", "9">>
LowerHex == <<"a", "b", "c", "d", "e", "f">>
UpperHex == <<"A", "B", "C", "D", "E", "F">>
HexDigits == {DecDigits[i] : i \in 1..10} \cup {LowerHex[i] : i \in 1..6}
               \cup {UpperHex[i] : i \in 1..6}

RECURSIVE TrimStart(_)
TrimStart(s) ==
    IF s # <<>> /\ Head(s) \in WhiteSpace THEN TrimStart(Tail(s)) ELSE s

RECURSIVE TrimEnd(_)
TrimEnd(s) ==
    IF s # <<>> /\ s[Len(s)] \in WhiteSpace
    THEN TrimEnd(SubSeq(s, 1, Len(s) - 1))
    ELSE s

\* String.prototype.trim
Trim(s) == TrimEnd(TrimStart(s))

\* /^0x[0-9a-fA-F]+$/.test(s)
TestHexAddr(s) ==
    /\ Len(s) >= 3
    /\ s[1] = "0"
    /\ s[2] = "x"
    /\ \A i \in 3..Len(s) : s[i] \in HexDigits

HexDigitVal(c) ==
    IF \E i \in 1..10 : DecDigits[i] = c
    THEN (CHOOSE i \in 1..10 : DecDigits[i] = c) - 1
    ELSE IF \E i \in 1..6 : LowerHex[i] = c
    THEN (CHOOSE i \in 1..6 : LowerHex[i] = c) + 9
    ELSE (CHOOSE i \in 1..6 : UpperHex[i] = c) + 9

RECURSIVE ParseHexDigits(_, _)
ParseHexDigits(s, acc) ==
    IF s = <<>> \/ Head(s) \notin HexDigits
    THEN acc
    ELSE ParseHexDigits(Tail(s), acc * 16 + HexDigitVal(Head(s)))

\* parseInt(s, 16) of a text that starts with 0x: the digits up to the first
\* character that is no hex digit
ParseInt16(s) == ParseHexDigits(SubSeq(s, 3, Len(s)), 0)

IsValidAddrNoTrim(s) == TestHexAddr(s)

\* const addrStr = flashAddress.trim(); const isValidAddr = /^0x[0-9a-fA-F]+$/.test(addrStr)
IsValidAddr(s) == TestHexAddr(Trim(s))

MapProgressNoSetup(written, total) == (180 * written + total) \div (2 * total)

\* Math.round(10 + (written / total) * 100 * 0.9): round half up of
\* 10 + 90 * written / total
MapProgress(written, total) == (180 * written + 21 * total) \div (2 * total)

(***************************************************************************)
(* Initial state: the component as mounted.                                *)
(***************************************************************************)
CallIdle == [pc |-> "idle", port |-> NULL]
FlashIdle == [pc |-> "idle", loader |-> NULL, address |-> 0, port |-> NULL,
              total |-> 1, written |-> 0]

SessionInit ==
    /\ isConnected = FALSE
    /\ isFlashing = FALSE
    /\ progress = 0
    /\ chipInfo = ""
    /\ firmwareFile = NoFile
    /\ flashAddress = Addr10000
    /\ transportRef = NULL
    /\ espLoaderRef = NULL
    /\ serialPortRef = NULL
    /\ serialSupported \in BOOLEAN
    /\ portOpen = [p \in Ports |-> FALSE]
    /\ pending = "none"
    /\ conn = [c \in 1..MaxConnectCalls |-> CallIdle]
    /\ disc = [d \in 1..MaxDisconnectCalls |-> CallIdle]
    /\ flash = FlashIdle
    /\ flashOutcome = "none"
    /\ flashIO = <<>>

(***************************************************************************)
(* The user: clicks, the address field, the firmware selection.            *)
(***************************************************************************)
\* a free slot for a call: the lowest idle one
FreeSlot(calls, c) ==
    /\ calls[c].pc = "idle"
    /\ \A k \in DOMAIN calls : k < c => calls[k].pc # "idle"

\* the user clicks the Flash button; the click is dispatched by the next step
\* (to flashFirmware, or to nothing when the button is disabled)
ClickFlash ==
    /\ pending = "none"
    /\ pending' = "flash"
    /\ UNCHANGED <<isConnected, isFlashing, progress, chipInfo, firmwareFile,
                   flashAddress, transportRef, espLoaderRef, serialPortRef,
                   serialSupported, portOpen, conn, disc, flash, flashOutcome,
                   flashIO>>
    /\ UNCHANGED outsideSession

\* <input value={flashAddress} onChange=... disabled={isFlashing}>
setFlashAddress(s) ==
    /\ pending = "none"
    /\ ~isFlashing
    /\ flashAddress' = s
    /\ UNCHANGED <<isConnected, isFlashing, progress, chipInfo, firmwareFile,
                   transportRef, espLoaderRef, serialPortRef, serialSupported,
                   portOpen, pending, conn, disc, flash, flashOutcome, flashIO>>
    /\ UNCHANGED outsideSession

\* setFirmwareFile(file) / setFirmwareFile(null)
setFirmwareFile(f) ==
    /\ pending = "none"
    /\ firmwareFile' = f
    /\ UNCHANGED <<isConnected, isFlashing, progress, chipInfo, flashAddress,
                   transportRef, espLoaderRef, serialPortRef, serialSupported,
                   portOpen, pending, conn, disc, flash, flashOutcome, flashIO>>
    /\ UNCHANGED outsideSession

(***************************************************************************)
(* connectToDevice                                                         *)
(***************************************************************************)
\* a click on Connect, rendered only while !isConnected: the call up to its
\* first await, the Web Serial check and then requestPort()
connectToDevice(c) ==
    /\ pending = "none"
    /\ ~isConnected
    /\ FreeSlot(conn, c)
    /\ UNCHANGED pending
    /\ conn' = IF serialSupported
               THEN [conn EXCEPT ![c] = [pc |-> "requestPort", port |-> NULL]]
               ELSE conn
    /\ UNCHANGED <<isConnected, isFlashing, progress, chipInfo, firmwareFile,
                   flashAddress, transportRef, espLoaderRef, serialPortRef,
                   serialSupported, portOpen, disc, flash, flashOutcome, flashIO>>
    /\ UNCHANGED outsideSession

\* requestPort() resolves: the refs are bound and esploader.main() is called
ConnectPortGranted(c, p) ==
    /\ pending = "none"
    /\ conn[c].pc = "requestPort"
    /\ serialPortRef' = p
    /\ transportRef' = p
    /\ espLoaderRef' = p
    /\ conn' = [conn EXCEPT ![c] = [pc |-> "main", port |-> p]]
    /\ UNCHANGED <<isConnected, isFlashing, progress, chipInfo, firmwareFile,
                   flashAddress, serialSupported, portOpen, pending, disc, flash,
                   flashOutcome, flashIO>>
    /\ UNCHANGED outsideSession

\* requestPort() rejects (no port chosen, access refused): the catch block
ConnectPortRefused(c) ==
    /\ pending = "none"
    /\ conn[c].pc = "requestPort"
    /\ transportRef' = NULL
    /\ espLoaderRef' = NULL
    /\ serialPortRef' = NULL
    /\ conn' = [conn EXCEPT ![c] = CallIdle]
    /\ UNCHANGED <<isConnected, isFlashing, progress, chipInfo, firmwareFile,
                   flashAddress, serialSupported, portOpen, pending, disc, flash,
                   flashOutcome, flashIO>>
    /\ UNCHANGED outsideSession

\* esploader.main() resolves with the chip: the port is open; readMac, when the
\* loader has it, is awaited next
ConnectHandshakeOk(c, chip, hasReadMac) ==
    /\ pending = "none"
    /\ conn[c].pc = "main"
    /\ portOpen' = [portOpen EXCEPT ![conn[c].port] = TRUE]
    /\ chipInfo' = chip
    /\ isConnected' = TRUE
    /\ conn' = [conn EXCEPT ![c] = IF hasReadMac
                                   THEN [pc |-> "readMac", port |-> conn[c].port]
                                   ELSE CallIdle]
    /\ UNCHANGED <<isFlashing, progress, firmwareFile, flashAddress, transportRef,
                   espLoaderRef, serialPortRef, serialSupported, pending, disc,
                   flash, flashOutcome, flashIO>>
    /\ UNCHANGED outsideSession

\* esploader.main() rejects: the catch block clears the refs; the transport
\* may or may not have opened the port before the handshake failed
ConnectHandshakeFailed(c, opened) ==
    /\ pending = "none"
    /\ conn[c].pc = "main"
    /\ portOpen' = [portOpen EXCEPT ![conn[c].port] = @ \/ opened]
    /\ transportRef' = NULL
    /\ espLoaderRef' = NULL
    /\ serialPortRef' = NULL
    /\ conn' = [conn EXCEPT ![c] = CallIdle]
    /\ UNCHANGED <<isConnected, isFlashing, progress, chipInfo, firmwareFile,
                   flashAddress, serialSupported, pending, disc, flash,
                   flashOutcome, flashIO>>
    /\ UNCHANGED outsideSession

\* a rejection of readMac() reaches the outer catch block
ConnectReadMacEscapes(c) ==
    /\ pending = "none"
    /\ conn[c].pc = "readMac"
    /\ transportRef' = NULL
    /\ espLoaderRef' = NULL
    /\ serialPortRef' = NULL
    /\ conn' = [conn EXCEPT ![c] = CallIdle]
    /\ UNCHANGED <<isConnected, isFlashing, progress, chipInfo, firmwareFile,
                   flashAddress, serialSupported, portOpen, pending, disc, flash,
                   flashOutcome, flashIO>>
    /\ UNCHANGED outsideSession

\* readMac() resolves or rejects: either way the call ends
ConnectReadMacDone(c) ==
    /\ pending = "none"
    /\ conn[c].pc = "readMac"
    /\ conn' = [conn EXCEPT ![c] = CallIdle]
    /\ UNCHANGED <<isConnected, isFlashing, progress, chipInfo, firmwareFile,
                   flashAddress, transportRef, espLoaderRef, serialPortRef,
                   serialSupported, portOpen, pending, disc, flash, flashOutcome,
                   flashIO>>
    /\ UNCHANGED outsideSession

(***************************************************************************)
(* disconnectDevice                                                        *)
(***************************************************************************)
\* the finally block of disconnectDevice
DisconnectFinally(d) ==
    /\ serialPortRef' = NULL
    /\ transportRef' = NULL
    /\ espLoaderRef' = NULL
    /\ isConnected' = FALSE
    /\ chipInfo' = ""
    /\ disc' = [disc EXCEPT ![d] = CallIdle]

\* if (serialPortRef.current && serialPortRef.current.readable) await close()
DisconnectPortStep(d, open) ==
    IF serialPortRef # NULL /\ open[serialPortRef]
    THEN /\ disc' = [disc EXCEPT ![d] = [pc |-> "close", port |-> serialPortRef]]
         /\ UNCHANGED linkVars
    ELSE DisconnectFinally(d)

\* a click on Disconnect, rendered only while isConnected: the call up to its
\* first await
disconnectDevice(d) ==
    /\ pending = "none"
    /\ isConnected
    /\ FreeSlot(disc, d)
    /\ UNCHANGED pending
    /\ IF transportRef # NULL
       THEN /\ disc' = [disc EXCEPT ![d] = [pc |-> "disconnect", port |-> transportRef]]
            /\ UNCHANGED linkVars
       ELSE DisconnectPortStep(d, portOpen)
    /\ UNCHANGED <<isFlashing, progress, firmwareFile, flashAddress,
                   serialSupported, portOpen, conn, flash, flashOutcome, flashIO>>
    /\ UNCHANGED outsideSession

\* transport.disconnect() resolves; it may have closed the port itself
DisconnectTransportOk(d, closed) ==
    /\ pending = "none"
    /\ disc[d].pc = "disconnect"
    /\ portOpen' = [portOpen EXCEPT ![disc[d].port] = @ /\ ~closed]
    /\ DisconnectPortStep(d, portOpen')
    /\ UNCHANGED <<isFlashing, progress, firmwareFile, flashAddress,
                   serialSupported, pending, conn, flash, flashOutcome, flashIO>>
    /\ UNCHANGED outsideSession

\* a rejection of transport.disconnect() leaves the call, the finally not run
DisconnectTransportEscapes(d) ==
    /\ pending = "none"
    /\ disc[d].pc = "disconnect"
    /\ disc' = [disc EXCEPT ![d] = CallIdle]
    /\ UNCHANGED linkVars
    /\ UNCHANGED <<isFlashing, progress, firmwareFile, flashAddress,
                   serialSupported, portOpen, pending, conn, flash, flashOutcome,
                   flashIO>>
    /\ UNCHANGED outsideSession

\* transport.disconnect() rejects: catch, then finally; close() is skipped
DisconnectTransportThrows(d) ==
    /\ pending = "none"
    /\ disc[d].pc = "disconnect"
    /\ DisconnectFinally(d)
    /\ UNCHANGED <<isFlashing, progress, firmwareFile, flashAddress,
                   serialSupported, portOpen, pending, conn, flash, flashOutcome,
                   flashIO>>
    /\ UNCHANGED outsideSession

\* port.close() resolves (the port is closed) or rejects (it stays as it was)
DisconnectCloseDone(d, ok) ==
    /\ pending = "none"
    /\ disc[d].pc = "close"
    /\ portOpen' = [portOpen EXCEPT ![disc[d].port] = @ /\ ~ok]
    /\ DisconnectFinally(d)
    /\ UNCHANGED <<isFlashing, progress, firmwareFile, flashAddress,
                   serialSupported, pending, conn, flash, flashOutcome, flashIO>>
    /\ UNCHANGED outsideSession

(***************************************************************************)
(* flashFirmware                                                           *)
(***************************************************************************)
IOCall(name, arg) == [call |-> name, arg |-> arg]

FlashButtonEnabledWhileFlashing == ~isConnected \/ firmwareFile = NoFile

\* <button onClick={flashFirmware} disabled={!isConnected || isFlashing || !firmwareFile}>
FlashButtonDisabled == ~isConnected \/ isFlashing \/ firmwareFile = NoFile

\* a click on the disabled Flash button is not delivered to flashFirmware
FlashClickIgnored ==
    /\ pending = "flash"
    /\ FlashButtonDisabled
    /\ pending' = "none"
    /\ UNCHANGED <<isConnected, isFlashing, progress, chipInfo, firmwareFile,
                   flashAddress, transportRef, espLoaderRef, serialPortRef,
                   serialSupported, portOpen, conn, disc, flash, flashOutcome,
                   flashIO>>
    /\ UNCHANGED outsideSession

\* the call up to its first await: the two guards, then setIsFlashing(true),
\* setProgress(0) and firmwareFile.arrayBuffer()
flashFirmware ==
    /\ pending = "flash"
    /\ ~FlashButtonDisabled
    /\ pending' = "none"
    /\ IF espLoaderRef = NULL \/ firmwareFile = NoFile
       THEN /\ flashOutcome' = "NoDeviceOrFile"
            /\ UNCHANGED <<isFlashing, progress, flash, flashIO>>
       ELSE IF ~IsValidAddr(flashAddress)
       THEN /\ flashOutcome' = "InvalidAddress"
            /\ UNCHANGED <<isFlashing, progress, flash, flashIO>>
       ELSE /\ isFlashing' = TRUE
            /\ progress' = 0
            /\ flashOutcome' = "none"
            /\ flashIO' = <<>>
            /\ flash' = [pc |-> "readFile", loader |-> espLoaderRef,
                         address |-> ParseInt16(Trim(flashAddress)),
                         port |-> NULL, total |-> 1, written |-> 0]
    /\ UNCHANGED <<isConnected, chipInfo, firmwareFile, flashAddress,
                   transportRef, espLoaderRef, serialPortRef, serialSupported,
                   portOpen, conn, disc>>
    /\ UNCHANGED outsideSession

\* the flash call moves on to await another DeviceLink call
FlashGoto(pc, port, io) ==
    /\ flash' = [flash EXCEPT !.pc = pc, !.port = port]
    /\ flashIO' = io
    /\ UNCHANGED <<transportRef, espLoaderRef, serialPortRef, isConnected,
                   chipInfo, isFlashing>>

FlashFinishKeepsLoader(io) ==
    /\ transportRef' = NULL
    /\ serialPortRef' = NULL
    /\ isConnected' = FALSE
    /\ chipInfo' = ""
    /\ isFlashing' = FALSE
    /\ flash' = FlashIdle
    /\ flashIO' = <<>>
    /\ UNCHANGED espLoaderRef

\* the refs and the device identity are cleared, then finally: setIsFlashing(false)
FlashFinish(io) ==
    /\ transportRef' = NULL
    /\ espLoaderRef' = NULL
    /\ serialPortRef' = NULL
    /\ isConnected' = FALSE
    /\ chipInfo' = ""
    /\ isFlashing' = FALSE
    /\ flash' = FlashIdle
    /\ flashIO' = <<>>

\* success path: if (serialPortRef.current) { if (readable) await close() }
FlashPortStep(io, open) ==
    IF serialPortRef # NULL /\ open[serialPortRef]
    THEN FlashGoto("close", serialPortRef, Append(io, IOCall("close", 0)))
    ELSE FlashFinish(io)

\* success path: if (transportRef.current) await transportRef.current.disconnect()
FlashTransportStep(io, open) ==
    IF transportRef # NULL
    THEN FlashGoto("disconnect", transportRef, Append(io, IOCall("disconnect", 0)))
    ELSE FlashPortStep(io, open)

\* success path: if (serialPortRef.current && 'setSignals' in serialPortRef.current)
FlashSignalStep(io, open, hasSetSignals) ==
    IF serialPortRef # NULL /\ hasSetSignals
    THEN FlashGoto("signal1", serialPortRef, Append(io, IOCall("setSignals", 0)))
    ELSE FlashTransportStep(io, open)

\* failure path: if (serialPortRef.current && serialPortRef.current.readable) await close()
FlashErrPortStep(io, open) ==
    IF serialPortRef # NULL /\ open[serialPortRef]
    THEN FlashGoto("errClose", serialPortRef, Append(io, IOCall("close", 0)))
    ELSE FlashFinish(io)

\* the catch block of flashFirmware: the fault is logged, then the cleanup
FlashCatch(io) ==
    /\ flashOutcome' = "Error"
    /\ IF transportRef # NULL
       THEN FlashGoto("errDisconnect", transportRef,
                      Append(io, IOCall("disconnect", 0)))
       ELSE FlashErrPortStep(io, portOpen)

\* firmwareFile.arrayBuffer() resolves: setProgress(10), then writeFlash is
\* called on the loader captured at the start of the call
FlashReadFileOk(total) ==
    /\ pending = "none"
    /\ flash.pc = "readFile"
    /\ progress' = 10
    /\ flash' = [flash EXCEPT !.pc = "write", !.total = total, !.written = 0]
    /\ flashIO' = Append(flashIO, IOCall("writeFlash", flash.address))
    /\ UNCHANGED <<isConnected, isFlashing, chipInfo, firmwareFile, flashAddress,
                   transportRef, espLoaderRef, serialPortRef, serialSupported,
                   portOpen, pending, conn, disc, flashOutcome>>
    /\ UNCHANGED outsideSession

\* firmwareFile.arrayBuffer() rejects
FlashReadFileFails ==
    /\ pending = "none"
    /\ flash.pc = "readFile"
    /\ FlashCatch(flashIO)
    /\ UNCHANGED <<progress, firmwareFile, flashAddress, serialSupported,
                   portOpen, pending, conn, disc>>
    /\ UNCHANGED outsideSession

\* reportProgress(fileIndex, written, total), written never going back
FlashReportProgress(written) ==
    /\ pending = "none"
    /\ flash.pc = "write"
    /\ written >= flash.written
    /\ written <= flash.total
    /\ progress' = MapProgress(written, flash.total)
    /\ flash' = [flash EXCEPT !.written = written]
    /\ UNCHANGED <<isConnected, isFlashing, chipInfo, firmwareFile, flashAddress,
                   transportRef, espLoaderRef, serialPortRef, serialSupported,
                   portOpen, pending, conn, disc, flashOutcome, flashIO>>
    /\ UNCHANGED outsideSession

\* writeFlash resolves: setProgress(100), the success is logged, the
\* finalization starts; the port may or may not expose setSignals
FlashWriteOk(hasSetSignals) ==
    /\ pending = "none"
    /\ flash.pc = "write"
    /\ progress' = 100
    /\ flashOutcome' = "Completed"
    /\ FlashSignalStep(flashIO, portOpen, hasSetSignals)
    /\ UNCHANGED <<firmwareFile, flashAddress, serialSupported, portOpen,
                   pending, conn, disc>>
    /\ UNCHANGED outsideSession

\* writeFlash rejects
FlashWriteFails ==
    /\ pending = "none"
    /\ flash.pc = "write"
    /\ FlashCatch(flashIO)
    /\ UNCHANGED <<progress, firmwareFile, flashAddress, serialSupported,
                   portOpen, pending, conn, disc>>
    /\ UNCHANGED outsideSession

\* the first setSignals resolves; 50 ms later the second is called on the
\* same port
FlashSignal1Ok ==
    /\ pending = "none"
    /\ flash.pc = "signal1"
    /\ FlashGoto("signal2", flash.port, Append(flashIO, IOCall("setSignals", 0)))
    /\ UNCHANGED <<progress, firmwareFile, flashAddress, serialSupported,
                   portOpen, pending, conn, disc, flashOutcome>>
    /\ UNCHANGED outsideSession

\* the second setSignals resolves and its 50 ms pass
FlashSignal2Ok ==
    /\ pending = "none"
    /\ flash.pc = "signal2"
    /\ FlashTransportStep(flashIO, portOpen)
    /\ UNCHANGED <<progress, firmwareFile, flashAddress, serialSupported,
                   portOpen, pending, conn, disc, flashOutcome>>
    /\ UNCHANGED outsideSession

\* either setSignals rejects: the inner catch, then the transport step
FlashSignalThrows ==
    /\ pending = "none"
    /\ flash.pc \in {"signal1", "signal2"}
    /\ FlashTransportStep(flashIO, portOpen)
    /\ UNCHANGED <<progress, firmwareFile, flashAddress, serialSupported,
                   portOpen, pending, conn, disc, flashOutcome>>
    /\ UNCHANGED outsideSession

\* success path: transport.disconnect() resolves and its 100 ms pass; it may
\* have closed the port itself
FlashDisconnectOk(closed) ==
    /\ pending = "none"
    /\ flash.pc = "disconnect"
    /\ portOpen' = [portOpen EXCEPT ![flash.port] = @ /\ ~closed]
    /\ FlashPortStep(flashIO, portOpen')
    /\ UNCHANGED <<progress, firmwareFile, flashAddress, serialSupported,
                   pending, conn, disc, flashOutcome>>
    /\ UNCHANGED outsideSession

FlashDisconnectThrowsToCatch ==
    /\ pending = "none"
    /\ flash.pc = "disconnect"
    /\ FlashCatch(flashIO)
    /\ UNCHANGED <<progress, firmwareFile, flashAddress, serialSupported,
                   portOpen, pending, conn, disc>>
    /\ UNCHANGED outsideSession

\* success path: transport.disconnect() rejects: the outer catch skips close()
FlashDisconnectThrows ==
    /\ pending = "none"
    /\ flash.pc = "disconnect"
    /\ FlashFinish(flashIO)
    /\ UNCHANGED <<progress, firmwareFile, flashAddress, serialSupported,
                   portOpen, pending, conn, disc, flashOutcome>>
    /\ UNCHANGED outsideSession

\* failure path: transport.disconnect() resolves
FlashErrDisconnectOk(closed) ==
    /\ pending = "none"
    /\ flash.pc = "errDisconnect"
    /\ portOpen' = [portOpen EXCEPT ![flash.port] = @ /\ ~closed]
    /\ FlashErrPortStep(flashIO, portOpen')
    /\ UNCHANGED <<progress, firmwareFile, flashAddress, serialSupported,
                   pending, conn, disc, flashOutcome>>
    /\ UNCHANGED outsideSession

\* failure path: transport.disconnect() rejects: the cleanup catch
FlashErrDisconnectThrows ==
    /\ pending = "none"
    /\ flash.pc = "errDisconnect"
    /\ FlashFinish(flashIO)
    /\ UNCHANGED <<progress, firmwareFile, flashAddress, serialSupported,
                   portOpen, pending, conn, disc, flashOutcome>>
    /\ UNCHANGED outsideSession

\* either path: port.close() resolves (the port is closed) or rejects
FlashCloseDone(ok) ==
    /\ pending = "none"
    /\ flash.pc \in {"close", "errClose"}
    /\ portOpen' = [portOpen EXCEPT ![flash.port] = @ /\ ~ok]
    /\ FlashFinish(flashIO)
    /\ UNCHANGED <<progress, firmwareFile, flashAddress, serialSupported,
                   pending, conn, disc, flashOutcome>>
    /\ UNCHANGED outsideSession

(***************************************************************************)
(* The firmware store: IndexedDB database ESP32FlasherDB, version 2, one   *)
(* object store 'firmwares' keyed by name.                                 *)
(*                                                                         *)
(* No call closes the connection its openDB gave it: a connection stays    *)
(* open until its request has settled and the browser has collected it.    *)
(* deleteDatabase deletes at once when no connection is open; otherwise it *)
(* is blocked, and the deletion happens when the last connection has gone. *)
(* An open waits for a deletion that is under way.                         *)
(***************************************************************************)
DB_VERSION == 2

NoRecord == [name |-> "", data |-> NullBlob, timestamp |-> -1, size |-> -1]

\* { keyPath: 'name' }
KeyOf(r) == r.name

FirmwareRecordNoSize(name, data, t) ==
    [name |-> name, data |-> data, timestamp |-> t, size |-> 0]

\* const firmware = { name, data, timestamp: Date.now(), size: data.byteLength }
FirmwareRecord(name, data, t) ==
    [name |-> name, data |-> data, timestamp |-> t, size |-> data.len]

StorePutKeepsOld(rs, r) ==
    IF \E x \in rs : KeyOf(x) = KeyOf(r) THEN rs ELSE rs \cup {r}

StorePutAdds(rs, r) == rs \cup {r}

\* store.put(firmware): the record replaces the one with its key
StorePut(rs, r) == {x \in rs : KeyOf(x) # KeyOf(r)} \cup {r}

\* store.get(name): request.result, undefined when no record has the key
StoreGet(rs, k) ==
    IF \E x \in rs : KeyOf(x) = k
    THEN CHOOSE x \in rs : KeyOf(x) = k
    ELSE NoRecord

\* store.delete(name)
StoreDelete(rs, k) == {x \in rs : KeyOf(x) # k}

\* getFirmwareFromDB: request.result ? request.result.data : null
GetResolved(r) == IF r # NoRecord THEN r.data ELSE NullBlob

\* a pending request keeps its connection from being collected
RequestPending ==
    \/ save.pc \in {"put1", "put2"}
    \/ get.pc = "request"
    \/ del.pc = "request"
    \/ mount.pc = "listRequest"
    \/ upload.pc = "listRequest"
    \/ clear.pc = "listRequest"
    \/ \E c \in DOMAIN download : download[c].pc = "listRequest"
    \/ remove.pc = "listRequest"

\* an upgrade that keeps the records of the old object store
OpenedKeepsRecords ==
    IF dbVersion < DB_VERSION
    THEN [version |-> DB_VERSION, hasStore |-> TRUE, records |-> records]
    ELSE [version |-> dbVersion, hasStore |-> hasStore, records |-> records]

\* the database after indexedDB.open(DB_NAME, DB_VERSION) succeeded:
\* onupgradeneeded deletes an object store of a version below 2 and creates
\* the object store when there is none
Opened ==
    IF dbVersion < DB_VERSION
    THEN [version |-> DB_VERSION, hasStore |-> TRUE, records |-> {}]
    ELSE [version |-> dbVersion, hasStore |-> hasStore, records |-> records]

\* what is known of the last settled write to each name
Unknown == [kind |-> "unknown", data |-> NullBlob]
WrittenPut(data) == [kind |-> "put", data |-> data]
WrittenDelete == [kind |-> "delete", data |-> NullBlob]
\* the upgrade of openDB deleted the object store with its records
Migrated == [kind |-> "upgrade", data |-> NullBlob]
\* a resetDatabase that returned, at once or after it was blocked
WrittenReset(blocked) ==
    [kind |-> IF blocked THEN "resetBlocked" ELSE "reset", data |-> NullBlob]

\* indexedDB.open that does not wait for a deletion under way
OpenDBNoWait ==
    /\ connections' = TRUE
    /\ dbVersion' = Opened.version
    /\ hasStore' = Opened.hasStore
    /\ records' = Opened.records
    /\ lastWrite' = lastWrite

\* openDB resolves
OpenDB ==
    /\ ~deletePending
    /\ connections' = TRUE
    /\ dbVersion' = Opened.version
    /\ hasStore' = Opened.hasStore
    /\ records' = Opened.records
    /\ lastWrite' = IF Opened.records = records
                    THEN lastWrite
                    ELSE [n \in Names |-> Migrated]

\* a deletion that leaves the database as it is
DatabaseKept ==
    /\ UNCHANGED <<dbVersion, hasStore, records>>
    /\ lastWrite' = [n \in Names |-> WrittenReset(deletePending)]

\* indexedDB.deleteDatabase(DB_NAME) has deleted the database
DatabaseDeleted ==
    /\ dbVersion' = 0
    /\ hasStore' = FALSE
    /\ records' = {}
    /\ lastWrite' = [n \in Names |-> WrittenReset(deletePending)]

\* resetDatabase resolves: onblocked (connections are still open: the
\* deletion is yet to happen) or onsuccess (the database is deleted)
ResetResolves ==
    /\ ~deletePending
    /\ IF connections
       THEN /\ deletePending' = TRUE
            /\ lastWrite' = [n \in Names |-> WrittenReset(TRUE)]
            /\ UNCHANGED <<dbVersion, hasStore, records>>
       ELSE /\ DatabaseDeleted
            /\ UNCHANGED deletePending
    /\ UNCHANGED connections

SaveIdle == [pc |-> "idle", name |-> "", data |-> NullBlob, timestamp |-> -1]
GetIdle == [pc |-> "idle", name |-> ""]
TraceInit == [firstFault |-> "none", retryFault |-> "none", resets |-> 0, puts |-> 0]

StoreInit ==
    /\ dbVersion \in {0, 1, DB_VERSION}
    /\ hasStore \in IF dbVersion = 0 THEN {FALSE}
                    ELSE IF dbVersion = 1 THEN BOOLEAN ELSE {TRUE}
    /\ records \in IF hasStore
                   THEN {{}, {FirmwareRecord("npg.bin", [len |-> 2048, id |-> 1], 0)}}
                   ELSE {{}}
    /\ connections = FALSE
    /\ deletePending = FALSE
    /\ now = 0
    /\ save = SaveIdle
    /\ saveTrace = TraceInit
    /\ saveOutcome = "none"
    /\ get = GetIdle
    /\ getResult = [outcome |-> "none", name |-> "", data |-> NullBlob]
    /\ del = GetIdle
    /\ delOutcome = "none"
    /\ lastWrite = [n \in Names |-> Unknown]

\* time passes
Tick ==
    /\ now < MaxClock
    /\ now' = now + 1
    /\ UNCHANGED <<dbVersion, hasStore, records, connections, deletePending, save, saveTrace,
                   saveOutcome, get, getResult, del, delOutcome, lastWrite>>
    /\ UNCHANGED outsideStore

\* the connections of the settled calls are collected
ConnectionsClosed ==
    /\ connections
    /\ ~RequestPending
    /\ connections' = FALSE
    /\ UNCHANGED <<dbVersion, hasStore, records, deletePending, now, save,
                   saveTrace, saveOutcome, get, getResult, del, delOutcome,
                   lastWrite>>
    /\ UNCHANGED outsideStore

\* the last connection has gone and the blocked deletion happens
DeletionCompletes ==
    /\ deletePending
    /\ ~connections
    /\ deletePending' = FALSE
    /\ DatabaseDeleted
    /\ UNCHANGED <<connections, now, save, saveTrace, saveOutcome, get, getResult, del,
                   delOutcome>>
    /\ UNCHANGED outsideStore

\* resetDatabase called on its own (clearAllFirmwares), resolving
resetDatabase ==
    /\ ResetResolves
    /\ UNCHANGED <<now, save, saveTrace, saveOutcome, get, getResult, del,
                   delOutcome>>
    /\ UNCHANGED outsideStore

(***************************************************************************)
(* saveFirmwareToDB                                                        *)
(***************************************************************************)
\* the call up to its first await: openDB()
SaveCalled(name, data) ==
    /\ save' = [pc |-> "open1", name |-> name, data |-> data, timestamp |-> -1]
    /\ saveTrace' = TraceInit
    /\ saveOutcome' = "none"

\* a call from outside the component
saveFirmwareToDB(name, data) ==
    /\ save.pc = "idle"
    /\ saveCaller = "none"
    /\ SaveCalled(name, data)
    /\ UNCHANGED <<dbVersion, hasStore, records, connections, deletePending, now, get,
                   getResult, del, delOutcome, lastWrite>>
    /\ UNCHANGED outsideStore

\* first attempt: openDB resolves; the promise of the put request is returned
SaveOpenOk ==
    /\ save.pc = "open1"
    /\ OpenDB
    /\ save' = [save EXCEPT !.pc = "put1", !.timestamp = now]
    /\ saveTrace' = [saveTrace EXCEPT !.puts = 1]
    /\ UNCHANGED <<deletePending, now, saveOutcome, get, getResult, del,
                   delOutcome>>
    /\ UNCHANGED outsideStore

\* first attempt: openDB rejects: the catch block awaits resetDatabase()
SaveOpenFails ==
    /\ save.pc = "open1"
    /\ save' = [save EXCEPT !.pc = "reset"]
    /\ saveTrace' = [saveTrace EXCEPT !.firstFault = "open", !.resets = 1]
    /\ UNCHANGED <<dbVersion, hasStore, records, connections, deletePending, now,
                   saveOutcome, get, getResult, del, delOutcome, lastWrite>>
    /\ UNCHANGED outsideStore

\* the returned promise resolves: request.onsuccess of store.put
SavePutSettles(pc) ==
    /\ save.pc = pc
    /\ records' = StorePut(records, FirmwareRecord(save.name, save.data, save.timestamp))
    /\ lastWrite' = [lastWrite EXCEPT ![save.name] = WrittenPut(save.data)]
    /\ save' = SaveIdle
    /\ saveOutcome' = "ok"
    /\ UNCHANGED <<dbVersion, hasStore, connections, deletePending, now, saveTrace, get,
                   getResult, del, delOutcome>>
    /\ UNCHANGED outsideStore

\* the returned promise rejects: db.transaction throws ("transaction") or
\* the request or the transaction fails ("request").  The promise was returned,
\* not awaited, so no catch block of saveFirmwareToDB sees the rejection
SavePutRejects(pc, fault) ==
    /\ save.pc = pc
    /\ save' = SaveIdle
    /\ saveOutcome' = "RawFault"
    /\ saveTrace' = IF pc = "put1"
                    THEN [saveTrace EXCEPT !.firstFault = fault]
                    ELSE [saveTrace EXCEPT !.retryFault = "write"]
    /\ UNCHANGED <<dbVersion, hasStore, records, connections, deletePending, now, get,
                   getResult, del, delOutcome, lastWrite>>
    /\ UNCHANGED outsideStore

\* the catch block: resetDatabase resolves, openDB() is awaited next
SaveResetOk ==
    /\ save.pc = "reset"
    /\ ResetResolves
    /\ save' = [save EXCEPT !.pc = "open2"]
    /\ UNCHANGED <<now, saveTrace, saveOutcome, get, getResult, del,
                   delOutcome>>
    /\ UNCHANGED outsideStore

\* the catch block: resetDatabase or the second openDB rejects: the inner
\* catch throws the error that asks to clear the browser cache
SaveRetryFails(pc) ==
    /\ save.pc = pc
    /\ pc \in {"reset", "open2"}
    /\ pc = "reset" => ~deletePending
    /\ save' = SaveIdle
    /\ saveOutcome' = "StorageUnavailable"
    /\ saveTrace' = [saveTrace EXCEPT
                       !.retryFault = IF pc = "reset" THEN "reset" ELSE "reopen"]
    /\ UNCHANGED <<dbVersion, hasStore, records, connections, deletePending, now, get,
                   getResult, del, delOutcome, lastWrite>>
    /\ UNCHANGED outsideStore

\* the catch block: the second openDB resolves; the promise of the put
\* request is returned
SaveReopenOk ==
    /\ save.pc = "open2"
    /\ OpenDB
    /\ save' = [save EXCEPT !.pc = "put2", !.timestamp = now]
    /\ saveTrace' = [saveTrace EXCEPT !.puts = @ + 1]
    /\ UNCHANGED <<deletePending, now, saveOutcome, get, getResult, del,
                   delOutcome>>
    /\ UNCHANGED outsideStore

(***************************************************************************)
(* getFirmwareFromDB, deleteFirmwareFromDB                                 *)
(***************************************************************************)
\* the call up to its first await: openDB()
getFirmwareFromDB(name) ==
    /\ get.pc = "idle"
    /\ get' = [pc |-> "open", name |-> name]
    /\ getResult' = [outcome |-> "none", name |-> name, data |-> NullBlob]
    /\ UNCHANGED <<dbVersion, hasStore, records, connections, deletePending, now, save,
                   saveTrace, saveOutcome, del, delOutcome, lastWrite>>
    /\ UNCHANGED outsideStore

GetOpenOk ==
    /\ get.pc = "open"
    /\ OpenDB
    /\ get' = [get EXCEPT !.pc = "request"]
    /\ UNCHANGED <<deletePending, now, save, saveTrace, saveOutcome, getResult,
                   del, delOutcome>>
    /\ UNCHANGED outsideStore

\* request.onsuccess of store.get
GetSettles ==
    /\ get.pc = "request"
    /\ getResult' = [outcome |-> "ok", name |-> get.name,
                     data |-> GetResolved(StoreGet(records, get.name))]
    /\ get' = GetIdle
    /\ UNCHANGED <<dbVersion, hasStore, records, connections, deletePending, now, save,
                   saveTrace, saveOutcome, del, delOutcome, lastWrite>>
    /\ UNCHANGED outsideStore

\* openDB or the request rejects: the call throws
GetFails ==
    /\ get.pc \in {"open", "request"}
    /\ getResult' = [outcome |-> "fault", name |-> get.name, data |-> NullBlob]
    /\ get' = GetIdle
    /\ UNCHANGED <<dbVersion, hasStore, records, connections, deletePending, now, save,
                   saveTrace, saveOutcome, del, delOutcome, lastWrite>>
    /\ UNCHANGED outsideStore

\* the call up to its first await: openDB()
deleteFirmwareFromDB(name) ==
    /\ del.pc = "idle"
    /\ del' = [pc |-> "open", name |-> name]
    /\ delOutcome' = "none"
    /\ UNCHANGED <<dbVersion, hasStore, records, connections, deletePending, now, save,
                   saveTrace, saveOutcome, get, getResult, lastWrite>>
    /\ UNCHANGED outsideStore

DeleteOpenOk ==
    /\ del.pc = "open"
    /\ OpenDB
    /\ del' = [del EXCEPT !.pc = "request"]
    /\ UNCHANGED <<deletePending, now, save, saveTrace, saveOutcome, get,
                   getResult, delOutcome>>
    /\ UNCHANGED outsideStore

\* request.onsuccess of store.delete
DeleteSettles ==
    /\ del.pc = "request"
    /\ records' = StoreDelete(records, del.name)
    /\ lastWrite' = [lastWrite EXCEPT ![del.name] = WrittenDelete]
    /\ delOutcome' = "ok"
    /\ del' = GetIdle
    /\ UNCHANGED <<dbVersion, hasStore, connections, deletePending, now, save, saveTrace,
                   saveOutcome, get, getResult>>
    /\ UNCHANGED outsideStore

\* openDB or the request rejects: the call throws
DeleteFails ==
    /\ del.pc \in {"open", "request"}
    /\ delOutcome' = "fault"
    /\ del' = GetIdle
    /\ UNCHANGED <<dbVersion, hasStore, records, connections, deletePending, now, save,
                   saveTrace, saveOutcome, get, getResult, lastWrite>>
    /\ UNCHANGED outsideStore

(***************************************************************************)
(* The release fetcher: fetchGithubReleases.                               *)
(*                                                                         *)
(* A response is what one request came to: the fetch threw (network error, *)
(* timeout), the status was not a success, the status was a success and    *)
(* the body was not JSON, or the status was a success and the body parsed. *)
(***************************************************************************)
\* asset names, as their characters
NameAppBin == <<"a", ".", "b", "i", "n">>
NameNpgBin == <<"n", ".", "b", "i", "n">>
NameNotes == <<"b", "i", "n", ".", "t", "x", "t">>
NameBinUpper == <<"a", ".", "B", "I", "N">>
DotBin == <<".", "b", "i", "n">>

Asset(name, url) == [name |-> name, browser_download_url |-> url]

\* parsed bodies: the JSON null, a release without the field assets, releases
JsonNull == [kind |-> "null", hasAssets |-> FALSE, assets |-> <<>>]
Release(assets) == [kind |-> "release", hasAssets |-> TRUE, assets |-> assets]
ReleaseNoAssets == [kind |-> "release", hasAssets |-> FALSE, assets |-> <<>>]
ReleaseMixed ==
    Release(<<Asset(NameNotes, "url1"), Asset(NameAppBin, "url2"),
              Asset(NameBinUpper, "url3")>>)
ReleaseNpg == Release(<<Asset(NameNpgBin, "url4")>>)
ReleaseNotesOnly == Release(<<Asset(NameNotes, "url1")>>)
ReleaseTwoBins ==
    Release(<<Asset(NameNpgBin, "url4"), Asset(NameNotes, "url1"),
              Asset(NameAppBin, "url2")>>)
Bodies == {JsonNull, ReleaseNoAssets, ReleaseMixed, ReleaseNpg, ReleaseNotesOnly,
           ReleaseTwoBins}

\* the direct GitHub API, then the proxies of corsProxies in their order
CorsProxies == <<"allOrigins", "corsProxy">>
Strategies == <<"direct">> \o CorsProxies

\* !releasesData is false
Truthy(body) == body.kind # "null"

\* asset.name.endsWith('.bin')
EndsWith(s, suffix) ==
    /\ Len(s) >= Len(suffix)
    /\ SubSeq(s, Len(s) - Len(suffix) + 1, Len(s)) = suffix

IsBinAnyCase(asset) ==
    EndsWith(asset.name, DotBin) \/ EndsWith(asset.name, <<".", "B", "I", "N">>)

IsBin(asset) == EndsWith(asset.name, DotBin)

\* (releasesData.assets || []).filter(endsWith('.bin')).map({name, url})
Candidates(body) ==
    LET assets == IF body.hasAssets THEN body.assets ELSE <<>>
        bins == SelectSeq(assets, IsBin)
    IN [i \in 1..Len(bins) |->
          [name |-> bins[i].name, url |-> bins[i].browser_download_url]]

\* the proxy after this one in corsProxies, "done" after the last
ProxyAfter(strategy) ==
    IF \E i \in 1..(Len(CorsProxies) - 1) : CorsProxies[i] = strategy
    THEN CorsProxies[(CHOOSE i \in 1..(Len(CorsProxies) - 1) :
                         CorsProxies[i] = strategy) + 1]
    ELSE "done"

AfterProxyNoBreak(strategy, parsed) == ProxyAfter(strategy)

\* the loop over corsProxies: break when the response was ok and parsed
AfterProxy(strategy, parsed) == IF parsed THEN "done" ELSE ProxyAfter(strategy)

\* after the direct request: if (!releasesData) the proxies are tried
AfterDirect(data) == IF Truthy(data) THEN "done" ELSE CorsProxies[1]

FetchIdle == [pc |-> "idle", releasesData |-> JsonNull]

FetchInit ==
    /\ githubFirmwares = <<>>
    /\ isFetchingGithub = FALSE
    /\ showGithubDialog = FALSE
    /\ fetch = FetchIdle
    /\ fetchLog = <<>>
    /\ fetchOutcome = "none"

\* the call up to its first await: the request to the GitHub API
fetchGithubReleases ==
    /\ ~isFetchingGithub
    /\ isFetchingGithub' = TRUE
    /\ fetch' = [pc |-> "direct", releasesData |-> JsonNull]
    /\ fetchLog' = <<>>
    /\ fetchOutcome' = "none"
    /\ UNCHANGED <<githubFirmwares, showGithubDialog>>
    /\ UNCHANGED outsideFetch

FetchReturnsClearsList(data) ==
    /\ isFetchingGithub' = FALSE
    /\ fetch' = FetchIdle
    /\ fetchOutcome' = IF ~Truthy(data) THEN "FetchUnavailable"
                       ELSE IF Len(Candidates(data)) = 0 THEN "Empty" ELSE "Found"
    /\ githubFirmwares' = IF Truthy(data) THEN Candidates(data) ELSE <<>>
    /\ showGithubDialog' = (Truthy(data) /\ Len(Candidates(data)) > 0)

\* the call from the end of the requests to its return
FetchReturns(data) ==
    /\ isFetchingGithub' = FALSE
    /\ fetch' = FetchIdle
    /\ IF ~Truthy(data)
       THEN /\ fetchOutcome' = "FetchUnavailable"
            /\ UNCHANGED <<githubFirmwares, showGithubDialog>>
       ELSE IF Len(Candidates(data)) = 0
       THEN /\ fetchOutcome' = "Empty"
            /\ UNCHANGED <<githubFirmwares, showGithubDialog>>
       ELSE /\ fetchOutcome' = "Found"
            /\ githubFirmwares' = Candidates(data)
            /\ showGithubDialog' = TRUE

\* the call from one response to its next await, or to its return
FetchStep(result, parsed, body) ==
    LET strategy == fetch.pc
        data == IF parsed THEN body ELSE fetch.releasesData
        next == IF strategy = "direct" THEN AfterDirect(data)
                ELSE AfterProxy(strategy, parsed)
    IN /\ fetchLog' = Append(fetchLog, [strategy |-> strategy, result |-> result,
                                        body |-> IF parsed THEN body ELSE JsonNull])
       /\ IF next = "done"
          THEN FetchReturns(data)
          ELSE /\ fetch' = [pc |-> next, releasesData |-> data]
               /\ UNCHANGED <<githubFirmwares, isFetchingGithub,
                              showGithubDialog, fetchOutcome>>

\* fetch() rejects, response.ok is false, or response.json() rejects
FetchFails(result) ==
    /\ fetch.pc # "idle"
    /\ FetchStep(result, FALSE, JsonNull)
    /\ UNCHANGED outsideFetch

\* response.ok and response.json() resolves
FetchOk(body) ==
    /\ fetch.pc # "idle"
    /\ FetchStep("ok", TRUE, body)
    /\ UNCHANGED outsideFetch

\* the close button of the dialog
CloseGithubDialog ==
    /\ showGithubDialog
    /\ showGithubDialog' = FALSE
    /\ UNCHANGED <<githubFirmwares, isFetchingGithub, fetch, fetchLog,
                   fetchOutcome>>
    /\ UNCHANGED outsideFetch

(***************************************************************************)
(* The coordinator: the handlers of the page that use the store.           *)
(*                                                                         *)
(* A handler that calls saveFirmwareToDB takes the save call of the store  *)
(* and resumes when it has settled; the steps of the call are those of the *)
(* store.                                                                  *)
(***************************************************************************)
\* the files the user may pick: a name and the bytes
LocalFiles ==
    {[name |-> "app.bin", data |-> [len |-> 512, id |-> 1]],
     [name |-> "npg.bin", data |-> [len |-> 2048, id |-> 1]],
     [name |-> "notes.txt", data |-> [len |-> 512, id |-> 2]]}

\* the characters of a file name
FileNameChars(name) ==
    CASE name = "app.bin" -> <<"a", "p", "p", ".", "b", "i", "n">>
      [] name = "npg.bin" -> <<"n", "p", "g", ".", "b", "i", "n">>
      [] name = "notes.txt" -> <<"n", "o", "t", "e", "s", ".", "t", "x", "t">>
      [] OTHER -> <<>>

\* getAllFirmwaresFromDB: request.result.map(item => ({name, size, timestamp}))
Listing(rs) ==
    {[name |-> r.name, size |-> r.size, timestamp |-> r.timestamp] : r \in rs}

ListIdle == [pc |-> "idle"]
UploadIdle == [pc |-> "idle", name |-> "", data |-> NullBlob]
ClearIdle == [pc |-> "idle", event |-> "none", listed |-> FALSE]
DownloadIdle == [pc |-> "idle", name |-> ""]
RemoveIdle == [pc |-> "idle", name |-> "", selected |-> NoFile]
LoadIdle == [pc |-> "idle", name |-> ""]

CoordInit ==
    /\ localFirmwares = {}
    /\ mount = [pc |-> "listOpen"]
    /\ upload = UploadIdle
    /\ uploadOutcome = "none"
    /\ saveCaller = "none"
    /\ clear = ClearIdle
    /\ clearOutcome = "none"
    /\ downloadingFirmware = NULL
    /\ download = [c \in 1..MaxDownloadCalls |-> DownloadIdle]
    /\ downloadOutcome = [c \in 1..MaxDownloadCalls |-> "none"]
    /\ remove = RemoveIdle
    /\ removeOutcome = "none"
    /\ load = LoadIdle

\* loadLocalFirmwares: getAllFirmwaresFromDB resolves and the listing is set,
\* or it rejects and the error is logged
ListDone(pc, ok) ==
    /\ IF ok THEN pc = "listRequest" ELSE pc \in {"listOpen", "listRequest"}
    /\ localFirmwares' = IF ok THEN Listing(records) ELSE localFirmwares

\* the mount effect: openDB of getAllFirmwaresFromDB resolves
MountListOpenOk ==
    /\ mount.pc = "listOpen"
    /\ OpenDB
    /\ mount' = [pc |-> "listRequest"]
    /\ UNCHANGED <<deletePending, callVars, localFirmwares, uploadVars, saveCaller>>
    /\ UNCHANGED <<sessionVars, fetchVars, clearVars, downloadVars, removeVars>>

\* the mount effect: loadLocalFirmwares returns
MountListDone(ok) ==
    /\ ListDone(mount.pc, ok)
    /\ mount' = ListIdle
    /\ UNCHANGED <<dbVars, callVars, uploadVars, saveCaller>>
    /\ UNCHANGED <<sessionVars, fetchVars, clearVars, downloadVars, removeVars>>

(***************************************************************************)
(* handleFileUpload                                                        *)
(***************************************************************************)
\* the handler up to file.arrayBuffer(); a name that does not end in .bin is
\* refused
handleFileUpload(file) ==
    /\ upload.pc = "idle"
    /\ IF EndsWith(FileNameChars(file.name), DotBin)
       THEN /\ firmwareFile' = file.name
            /\ upload' = [pc |-> "arrayBuffer", name |-> file.name, data |-> file.data]
            /\ uploadOutcome' = "none"
       ELSE /\ uploadOutcome' = "NotBin"
            /\ UNCHANGED <<firmwareFile, upload>>
    /\ UNCHANGED <<localFirmwares, mount, saveCaller>>
    /\ UNCHANGED <<sessionRest, storeVars, fetchVars, clearVars, downloadVars, removeVars>>

\* file.arrayBuffer() resolves: saveFirmwareToDB(file.name, arrayBuffer)
UploadReadOk ==
    /\ upload.pc = "arrayBuffer"
    /\ save.pc = "idle"
    /\ saveCaller = "none"
    /\ SaveCalled(upload.name, upload.data)
    /\ saveCaller' = "upload"
    /\ upload' = [upload EXCEPT !.pc = "save"]
    /\ UNCHANGED <<dbVars, now, get, getResult, del, delOutcome>>
    /\ UNCHANGED <<localFirmwares, mount, uploadOutcome>>
    /\ UNCHANGED <<sessionVars, fetchVars, clearVars, downloadVars, removeVars>>

\* file.arrayBuffer() rejects: nothing handles the rejection
UploadReadFails ==
    /\ upload.pc = "arrayBuffer"
    /\ upload' = [upload EXCEPT !.pc = "idle"]
    /\ uploadOutcome' = "ReadFailed"
    /\ UNCHANGED <<localFirmwares, mount, saveCaller>>
    /\ UNCHANGED <<sessionVars, storeVars, fetchVars, clearVars, downloadVars, removeVars>>

\* saveFirmwareToDB has settled: then(loadLocalFirmwares) or catch(log)
UploadSaveReturned ==
    /\ upload.pc = "save"
    /\ saveCaller = "upload"
    /\ save.pc = "idle"
    /\ saveOutcome # "none"
    /\ saveCaller' = "none"
    /\ IF saveOutcome = "ok"
       THEN /\ upload' = [upload EXCEPT !.pc = "listOpen"]
            /\ uploadOutcome' = "Saved"
       ELSE /\ upload' = [upload EXCEPT !.pc = "idle"]
            /\ uploadOutcome' = "SaveFailed"
    /\ UNCHANGED <<localFirmwares, mount>>
    /\ UNCHANGED <<sessionVars, storeVars, fetchVars, clearVars, downloadVars, removeVars>>

\* loadLocalFirmwares: openDB of getAllFirmwaresFromDB resolves
UploadListOpenOk ==
    /\ upload.pc = "listOpen"
    /\ OpenDB
    /\ upload' = [upload EXCEPT !.pc = "listRequest"]
    /\ UNCHANGED <<deletePending, callVars, localFirmwares, mount, uploadOutcome,
                   saveCaller>>
    /\ UNCHANGED <<sessionVars, fetchVars, clearVars, downloadVars, removeVars>>

\* loadLocalFirmwares returns
UploadListDone(ok) ==
    /\ ListDone(upload.pc, ok)
    /\ upload' = [upload EXCEPT !.pc = "idle"]
    /\ uploadOutcome' = IF ok THEN "Listed" ELSE "ListFailed"
    /\ UNCHANGED <<dbVars, callVars, mount, saveCaller>>
    /\ UNCHANGED <<sessionVars, fetchVars, clearVars, downloadVars, removeVars>>

(***************************************************************************)
(* clearAllFirmwares                                                       *)
(***************************************************************************)
\* what a deleteDatabase request may fire
DeleteEvents == {"success", "blocked", "error"}

\* resetDatabase maps onblocked to a rejection, as onerror
ResetReturnsUnlessBlocked(event) == event = "success"

\* resetDatabase resolves on onsuccess and on onblocked, rejects on onerror
ResetReturns(event) == event # "error"

\* the handler up to `await resetDatabase()`; a declined confirm() ends it
clearAllFirmwares(confirmed) ==
    /\ clear.pc = "idle"
    /\ IF confirmed
       THEN /\ clear' = [ClearIdle EXCEPT !.pc = "reset"]
            /\ clearOutcome' = "none"
       ELSE /\ clear' = ClearIdle
            /\ clearOutcome' = "Declined"
    /\ UNCHANGED <<localFirmwares, mount, uploadVars, saveCaller>>
    /\ UNCHANGED <<sessionVars, storeVars, fetchVars, downloadVars, removeVars>>

\* the deleteDatabase request fires its event: blocked when connections are
\* open, success when the database is deleted, error at any time
ClearResetSettles(event) ==
    /\ clear.pc = "reset"
    /\ ~deletePending
    /\ event = "error" \/ (event = "blocked" <=> connections)
    /\ IF ResetReturns(event)
       THEN /\ ResetResolves
            /\ clear' = [clear EXCEPT !.pc = "listOpen", !.event = event]
            /\ UNCHANGED clearOutcome
       ELSE /\ clear' = [clear EXCEPT !.pc = "idle", !.event = event]
            /\ clearOutcome' = "Error"
            /\ UNCHANGED dbVars
    /\ UNCHANGED <<callVars, localFirmwares, mount, uploadVars, saveCaller>>
    /\ UNCHANGED <<sessionVars, fetchVars, downloadVars, removeVars>>

\* loadLocalFirmwares: openDB of getAllFirmwaresFromDB resolves
ClearListOpenOk ==
    /\ clear.pc = "listOpen"
    /\ OpenDB
    /\ clear' = [clear EXCEPT !.pc = "listRequest"]
    /\ UNCHANGED <<deletePending, callVars, localFirmwares, mount, uploadVars,
                   saveCaller, clearOutcome>>
    /\ UNCHANGED <<sessionVars, fetchVars, downloadVars, removeVars>>

\* loadLocalFirmwares returns, then setFirmwareFile(null)
ClearListDone(ok) ==
    /\ ListDone(clear.pc, ok)
    /\ clear' = [clear EXCEPT !.pc = "idle", !.listed = ok]
    /\ firmwareFile' = NoFile
    /\ clearOutcome' = "Cleared"
    /\ UNCHANGED <<dbVars, callVars, mount, uploadVars, saveCaller>>
    /\ UNCHANGED <<sessionRest, fetchVars, downloadVars, removeVars>>

(***************************************************************************)
(* downloadGithubFirmware                                                  *)
(***************************************************************************)
\* the name of an asset as the key of its record
AssetFileName(chars) ==
    CASE chars = NameAppBin -> "app.bin"
      [] chars = NameNpgBin -> "npg.bin"
      [] OTHER -> "other.bin"

\* what the request through the proxy comes to: the fetch throws (network
\* error, timeout), the status is not 200, the content type is text/html, or
\* the body is there to be read
DownloadResponses == {"throws", "notOk", "html", "body"}

\* byteLength of the bodies a response may carry
BodyLengths == {0, 999, 1000, 1001}
MinBytes == 1000
\* the candidates a release of the model offers at most
MaxCandidates == 1
\* the downloadGithubFirmware calls that may be pending at the same time, and
\* the candidates of the dialog, where downloads overlap
MaxOverlap == 2

\* the bytes of a downloaded body
Downloaded(len) == [len |-> len, id |-> 3]

\* the size check rejects the empty body alone
DownloadRejectedIfEmpty(data) == data = NullBlob \/ data.len = 0

\* the size check rejects a body of the minimum size as well
DownloadRejectedAtThreshold(data) == data = NullBlob \/ data.len <= MinBytes

\* if (!arrayBuffer || arrayBuffer.byteLength < 1000)
DownloadRejected(data) == data = NullBlob \/ data.len < MinBytes

\* catch: the error and the manual download instructions are logged;
\* finally: setDownloadingFirmware(null)
DownloadThrows(c) ==
    /\ download' = [download EXCEPT ![c] = DownloadIdle]
    /\ downloadOutcome' = [downloadOutcome EXCEPT ![c] = "DownloadFailed"]
    /\ downloadingFirmware' = NULL

\* a click on a candidate of the dialog: the handler up to `await fetch(...)`
downloadGithubFirmware(c, i) ==
    /\ showGithubDialog
    /\ i \in 1..Len(githubFirmwares)
    /\ downloadingFirmware # AssetFileName(githubFirmwares[i].name)
    /\ download[c].pc = "idle"
    /\ downloadingFirmware' = AssetFileName(githubFirmwares[i].name)
    /\ download' = [download EXCEPT ![c] =
                      [DownloadIdle EXCEPT !.pc = "fetch",
                                           !.name = AssetFileName(githubFirmwares[i].name)]]
    /\ downloadOutcome' = [downloadOutcome EXCEPT ![c] = "none"]
    /\ UNCHANGED <<localFirmwares, mount, uploadVars, saveCaller, clearVars, removeVars>>
    /\ UNCHANGED <<sessionVars, storeVars, fetchVars>>

\* the request settles without a body to read: arrayBuffer stays null
DownloadNoBody(c, r) ==
    /\ download[c].pc = "fetch"
    /\ r # "body"
    /\ DownloadRejected(NullBlob)
    /\ DownloadThrows(c)
    /\ UNCHANGED <<localFirmwares, mount, uploadVars, saveCaller, clearVars, removeVars>>
    /\ UNCHANGED <<sessionVars, storeVars, fetchVars>>

\* the response is 200 and not HTML: `await response.arrayBuffer()`
DownloadResponseOk(c) ==
    /\ download[c].pc = "fetch"
    /\ download' = [download EXCEPT ![c].pc = "arrayBuffer"]
    /\ UNCHANGED <<downloadingFirmware, downloadOutcome>>
    /\ UNCHANGED <<localFirmwares, mount, uploadVars, saveCaller, clearVars, removeVars>>
    /\ UNCHANGED <<sessionVars, storeVars, fetchVars>>

\* response.arrayBuffer() rejects: the inner catch, arrayBuffer stays null
DownloadBodyFails(c) ==
    /\ download[c].pc = "arrayBuffer"
    /\ DownloadRejected(NullBlob)
    /\ DownloadThrows(c)
    /\ UNCHANGED <<localFirmwares, mount, uploadVars, saveCaller, clearVars, removeVars>>
    /\ UNCHANGED <<sessionVars, storeVars, fetchVars>>

\* response.arrayBuffer() resolves: the size check, then saveFirmwareToDB
DownloadBodyRead(c, len) ==
    /\ download[c].pc = "arrayBuffer"
    /\ IF DownloadRejected(Downloaded(len))
       THEN /\ DownloadThrows(c)
            /\ UNCHANGED <<saveVars, saveCaller>>
       ELSE /\ save.pc = "idle"
            /\ saveCaller = "none"
            /\ SaveCalled(download[c].name, Downloaded(len))
            /\ saveCaller' = "download"
            /\ download' = [download EXCEPT ![c].pc = "save"]
            /\ UNCHANGED <<downloadingFirmware, downloadOutcome>>
    /\ UNCHANGED <<dbVars, now, get, getResult, del, delOutcome>>
    /\ UNCHANGED <<localFirmwares, mount, uploadVars, clearVars, removeVars>>
    /\ UNCHANGED <<sessionVars, fetchVars>>

\* saveFirmwareToDB has settled: loadLocalFirmwares, or the catch
DownloadSaveReturned(c) ==
    /\ download[c].pc = "save"
    /\ saveCaller = "download"
    /\ save.pc = "idle"
    /\ saveOutcome # "none"
    /\ saveCaller' = "none"
    /\ IF saveOutcome = "ok"
       THEN /\ download' = [download EXCEPT ![c].pc = "listOpen"]
            /\ UNCHANGED <<downloadingFirmware, downloadOutcome>>
       ELSE DownloadThrows(c)
    /\ UNCHANGED <<localFirmwares, mount, uploadVars, clearVars, removeVars>>
    /\ UNCHANGED <<sessionVars, storeVars, fetchVars>>

\* loadLocalFirmwares: openDB of getAllFirmwaresFromDB resolves
DownloadListOpenOk(c) ==
    /\ download[c].pc = "listOpen"
    /\ OpenDB
    /\ download' = [download EXCEPT ![c].pc = "listRequest"]
    /\ UNCHANGED <<deletePending, callVars, localFirmwares, mount, uploadVars,
                   saveCaller, clearVars, removeVars, downloadingFirmware, downloadOutcome>>
    /\ UNCHANGED <<sessionVars, fetchVars>>

\* loadLocalFirmwares returns: setFirmwareFile(file), setShowGithubDialog(false),
\* and the finally
DownloadListDone(c, ok) ==
    /\ ListDone(download[c].pc, ok)
    /\ download' = [download EXCEPT ![c] = DownloadIdle]
    /\ firmwareFile' = download[c].name
    /\ showGithubDialog' = FALSE
    /\ downloadOutcome' = [downloadOutcome EXCEPT ![c] = "Downloaded"]
    /\ downloadingFirmware' = NULL
    /\ UNCHANGED <<dbVars, callVars, mount, uploadVars, saveCaller, clearVars, removeVars>>
    /\ UNCHANGED <<sessionRest, githubFirmwares, isFetchingGithub, fetch, fetchLog,
                   fetchOutcome>>

(***************************************************************************)
(* loadFirmwareFromStorage, deleteFirmwareFromStorage                      *)
(***************************************************************************)
\* the Load and Delete buttons are rendered for the entries of the listing
Listed(name) == \E e \in localFirmwares : e.name = name

\* if (firmwareFile && firmwareFile.name === name) setFirmwareFile(null), where
\* firmwareFile is the value of the render in which the button was clicked
SelectionAfterDelete(selected, name) ==
    IF selected # NoFile /\ selected = name THEN NoFile ELSE firmwareFile

\* a click on Load: the handler up to `await getFirmwareFromDB(name)`
loadFirmwareFromStorage(name) ==
    /\ Listed(name)
    /\ load.pc = "idle"
    /\ get.pc = "idle"
    /\ load' = [pc |-> "get", name |-> name]
    /\ get' = [pc |-> "open", name |-> name]
    /\ getResult' = [outcome |-> "none", name |-> name, data |-> NullBlob]
    /\ UNCHANGED <<dbVars, now, saveVars, del, delOutcome>>
    /\ UNCHANGED <<localFirmwares, mount, uploadVars, saveCaller, clearVars,
                   downloadVars, remove, removeOutcome>>
    /\ UNCHANGED <<sessionVars, fetchVars>>

\* getFirmwareFromDB has settled: setFirmwareFile(file) when it resolved with
\* bytes; "not found" is logged when it resolved with null, the error when it
\* threw
LoadGetReturned ==
    /\ load.pc = "get"
    /\ get.pc = "idle"
    /\ getResult.outcome # "none"
    /\ load' = LoadIdle
    /\ firmwareFile' = IF getResult.outcome = "ok" /\ getResult.data # NullBlob
                       THEN load.name
                       ELSE firmwareFile
    /\ UNCHANGED <<localFirmwares, mount, uploadVars, saveCaller, clearVars,
                   downloadVars, remove, removeOutcome>>
    /\ UNCHANGED <<sessionRest, storeVars, fetchVars>>

\* a click on Delete: the handler up to `await deleteFirmwareFromDB(name)`
deleteFirmwareFromStorage(name) ==
    /\ Listed(name)
    /\ remove.pc = "idle"
    /\ del.pc = "idle"
    /\ remove' = [pc |-> "delete", name |-> name, selected |-> firmwareFile]
    /\ removeOutcome' = "none"
    /\ del' = [pc |-> "open", name |-> name]
    /\ delOutcome' = "none"
    /\ UNCHANGED <<dbVars, now, saveVars, get, getResult>>
    /\ UNCHANGED <<localFirmwares, mount, uploadVars, saveCaller, clearVars,
                   downloadVars, load>>
    /\ UNCHANGED <<sessionVars, fetchVars>>

\* deleteFirmwareFromDB has settled: loadLocalFirmwares, or the catch
RemoveDeleteReturned ==
    /\ remove.pc = "delete"
    /\ del.pc = "idle"
    /\ delOutcome # "none"
    /\ IF delOutcome = "ok"
       THEN /\ remove' = [remove EXCEPT !.pc = "listOpen"]
            /\ UNCHANGED removeOutcome
       ELSE /\ remove' = RemoveIdle
            /\ removeOutcome' = "Error"
    /\ UNCHANGED <<localFirmwares, mount, uploadVars, saveCaller, clearVars,
                   downloadVars, load>>
    /\ UNCHANGED <<sessionVars, storeVars, fetchVars>>

\* loadLocalFirmwares: openDB of getAllFirmwaresFromDB resolves
RemoveListOpenOk ==
    /\ remove.pc = "listOpen"
    /\ OpenDB
    /\ remove' = [remove EXCEPT !.pc = "listRequest"]
    /\ UNCHANGED <<deletePending, callVars, localFirmwares, mount, uploadVars,
                   saveCaller, clearVars, downloadVars, removeOutcome, load>>
    /\ UNCHANGED <<sessionVars, fetchVars>>

\* loadLocalFirmwares returns, then the selection is cleared or kept
RemoveListDone(ok) ==
    /\ ListDone(remove.pc, ok)
    /\ firmwareFile' = SelectionAfterDelete(remove.selected, remove.name)
    /\ remove' = RemoveIdle
    /\ removeOutcome' = "Deleted"
    /\ UNCHANGED <<dbVars, callVars, mount, uploadVars, saveCaller, clearVars,
                   downloadVars, load>>
    /\ UNCHANGED <<sessionRest, fetchVars>>

(***************************************************************************)
(* The specifications.                                                     *)
(***************************************************************************)
SessionNext ==
    \/ ClickFlash
    \/ \E s \in AddrInputs : setFlashAddress(s)
    \/ \E f \in Files \cup {NoFile} : setFirmwareFile(f)
    \/ \E c \in 1..MaxConnectCalls : connectToDevice(c)
    \/ \E c \in 1..MaxConnectCalls, p \in Ports : ConnectPortGranted(c, p)
    \/ \E c \in 1..MaxConnectCalls : ConnectPortRefused(c)
    \/ \E c \in 1..MaxConnectCalls, chip \in Chips, m \in BOOLEAN :
          ConnectHandshakeOk(c, chip, m)
    \/ \E c \in 1..MaxConnectCalls, o \in BOOLEAN : ConnectHandshakeFailed(c, o)
    \/ \E c \in 1..MaxConnectCalls : ConnectReadMacDone(c)
    \/ \E d \in 1..MaxDisconnectCalls : disconnectDevice(d)
    \/ \E d \in 1..MaxDisconnectCalls, k \in BOOLEAN : DisconnectTransportOk(d, k)
    \/ \E d \in 1..MaxDisconnectCalls : DisconnectTransportThrows(d)
    \/ \E d \in 1..MaxDisconnectCalls, ok \in BOOLEAN : DisconnectCloseDone(d, ok)
    \/ FlashClickIgnored
    \/ flashFirmware
    \/ \E t \in 1..MaxTotal : FlashReadFileOk(t)
    \/ FlashReadFileFails
    \/ \E w \in 0..MaxTotal : FlashReportProgress(w)
    \/ \E g \in BOOLEAN : FlashWriteOk(g)
    \/ FlashWriteFails
    \/ FlashSignal1Ok
    \/ FlashSignal2Ok
    \/ FlashSignalThrows
    \/ \E k \in BOOLEAN : FlashDisconnectOk(k)
    \/ FlashDisconnectThrows
    \/ \E k \in BOOLEAN : FlashErrDisconnectOk(k)
    \/ FlashErrDisconnectThrows
    \/ \E ok \in BOOLEAN : FlashCloseDone(ok)

StoreNext ==
    \/ Tick
    \/ DeletionCompletes
    \/ ConnectionsClosed
    \/ resetDatabase
    \/ \E n \in Names, x \in Blobs : saveFirmwareToDB(n, x)
    \/ SaveOpenOk
    \/ SaveOpenFails
    \/ \E pc \in {"put1", "put2"} : SavePutSettles(pc)
    \/ \E pc \in {"put1", "put2"}, f \in {"transaction", "request"} :
          SavePutRejects(pc, f)
    \/ SaveResetOk
    \/ \E pc \in {"reset", "open2"} : SaveRetryFails(pc)
    \/ SaveReopenOk
    \/ \E n \in Names : getFirmwareFromDB(n)
    \/ GetOpenOk
    \/ GetSettles
    \/ GetFails
    \/ \E n \in Names : deleteFirmwareFromDB(n)
    \/ DeleteOpenOk
    \/ DeleteSettles
    \/ DeleteFails

FetchNext ==
    \/ fetchGithubReleases
    \/ \E r \in {"throws", "notOk", "badJson"} : FetchFails(r)
    \/ \E b \in Bodies : FetchOk(b)
    \/ CloseGithubDialog

\* the component as mounted, with the database in any state a visit may find
Init ==
    /\ SessionInit
    /\ StoreInit
    /\ FetchInit
    /\ CoordInit

\* the component as mounted in a browser with Web Serial and no database yet
Mounted ==
    /\ Init
    /\ serialSupported = TRUE
    /\ dbVersion = 0

Next ==
    \/ SessionNext
    \/ StoreNext
    \/ FetchNext

Spec == Init /\ [][Next]_vars

\* the session, the rest left alone
InitSession ==
    /\ SessionInit
    /\ StoreInit
    /\ dbVersion = 0
    /\ FetchInit
    /\ CoordInit

SessionSpec == InitSession /\ [][SessionNext]_vars

\* the store, the rest left alone
InitStore ==
    /\ SessionInit
    /\ serialSupported = TRUE
    /\ StoreInit
    /\ FetchInit
    /\ CoordInit

StoreSpec == InitStore /\ [][StoreNext]_vars

\* the release fetcher, the rest left alone
InitFetch ==
    /\ SessionInit
    /\ serialSupported = TRUE
    /\ StoreInit
    /\ dbVersion = 0
    /\ FetchInit
    /\ CoordInit

FetchSpec == InitFetch /\ [][FetchNext]_vars

(***************************************************************************)
(* The scenario of a first flash: the user picks a local file, connects    *)
(* and flashes at the default address, in that order, and every call to    *)
(* the device and to the store succeeds.                                   *)
(***************************************************************************)
ScenarioSelect ==
    /\ firmwareFile = NoFile
    /\ \E f \in LocalFiles : handleFileUpload(f)

ScenarioConnect ==
    /\ firmwareFile # NoFile
    /\ flashOutcome = "none"
    /\ connectToDevice(1)

ScenarioFlash ==
    /\ isConnected
    /\ \A c \in DOMAIN conn : conn[c].pc = "idle"
    /\ flash.pc = "idle"
    /\ flashOutcome = "none"
    /\ ClickFlash

ScenarioNext ==
    \/ ScenarioSelect
    \/ ScenarioConnect
    \/ ScenarioFlash
    \/ \E c \in 1..MaxConnectCalls, p \in Ports : ConnectPortGranted(c, p)
    \/ \E c \in 1..MaxConnectCalls, m \in BOOLEAN :
          ConnectHandshakeOk(c, "ESP32-C6", m)
    \/ \E c \in 1..MaxConnectCalls : ConnectReadMacDone(c)
    \/ flashFirmware
    \/ \E t \in 1..MaxTotal : FlashReadFileOk(t)
    \/ \E w \in 0..MaxTotal : FlashReportProgress(w)
    \/ \E g \in BOOLEAN : FlashWriteOk(g)
    \/ FlashSignal1Ok
    \/ FlashSignal2Ok
    \/ \E k \in BOOLEAN : FlashDisconnectOk(k)
    \/ FlashCloseDone(TRUE)
    \/ ConnectionsClosed
    \/ MountListOpenOk
    \/ MountListDone(TRUE)
    \/ UploadReadOk
    \/ SaveOpenOk
    \/ SavePutSettles("put1")
    \/ UploadSaveReturned
    \/ UploadListOpenOk
    \/ UploadListDone(TRUE)

InitScenario ==
    /\ SessionInit
    /\ serialSupported = TRUE
    /\ StoreInit
    /\ FetchInit
    /\ CoordInit

\* every pending call settles, and the user goes on to the next step
ScenarioSpec == InitScenario /\ [][ScenarioNext]_vars /\ WF_vars(ScenarioNext)

(***************************************************************************)
(* The coordinator with the store: the handlers that write the store,      *)
(* every outcome of their calls, and the steps of the browser, from the    *)
(* releases dialog open on the candidates of a fetch.  The clock stands    *)
(* still.                                                                  *)
(***************************************************************************)
CoordNext ==
    \/ DeletionCompletes
    \/ ConnectionsClosed
    \/ MountListOpenOk
    \/ \E ok \in BOOLEAN : MountListDone(ok)
    \/ \E f \in LocalFiles : handleFileUpload(f)
    \/ UploadReadOk
    \/ UploadReadFails
    \/ SaveOpenOk
    \/ SaveOpenFails
    \/ \E pc \in {"put1", "put2"} : SavePutSettles(pc)
    \/ \E pc \in {"put1", "put2"}, f \in {"transaction", "request"} :
          SavePutRejects(pc, f)
    \/ SaveResetOk
    \/ \E pc \in {"reset", "open2"} : SaveRetryFails(pc)
    \/ SaveReopenOk
    \/ UploadSaveReturned
    \/ UploadListOpenOk
    \/ \E ok \in BOOLEAN : UploadListDone(ok)
    \/ CloseGithubDialog
    \/ \E c \in 1..MaxDownloadCalls, i \in 1..MaxCandidates :
          downloadGithubFirmware(c, i)
    \/ \E c \in 1..MaxDownloadCalls, r \in DownloadResponses : DownloadNoBody(c, r)
    \/ \E c \in 1..MaxDownloadCalls : DownloadResponseOk(c)
    \/ \E c \in 1..MaxDownloadCalls : DownloadBodyFails(c)
    \/ \E c \in 1..MaxDownloadCalls, len \in BodyLengths : DownloadBodyRead(c, len)
    \/ \E c \in 1..MaxDownloadCalls : DownloadSaveReturned(c)
    \/ \E c \in 1..MaxDownloadCalls : DownloadListOpenOk(c)
    \/ \E c \in 1..MaxDownloadCalls, ok \in BOOLEAN : DownloadListDone(c, ok)

\* the releases dialog as a fetch that found candidates leaves it
Fetched(body) ==
    /\ githubFirmwares = Candidates(body)
    /\ isFetchingGithub = FALSE
    /\ showGithubDialog = TRUE
    /\ fetch = FetchIdle
    /\ fetchLog = <<[strategy |-> "direct", result |-> "ok", body |-> body]>>
    /\ fetchOutcome = "Found"

\* the component as mounted and the releases fetched once
InitCoord ==
    /\ SessionInit
    /\ serialSupported = TRUE
    /\ StoreInit
    /\ Fetched(ReleaseNpg)
    /\ CoordInit

CoordSpec == InitCoord /\ [][CoordNext]_vars

(***************************************************************************)
(* clearAllFirmwares among calls to the store from elsewhere: saves that   *)
(* succeed, and gets.  The clock stands still.                             *)
(***************************************************************************)
ClearNext ==
    \/ DeletionCompletes
    \/ ConnectionsClosed
    \/ \E n \in Names, x \in Blobs : saveFirmwareToDB(n, x)
    \/ SaveOpenOk
    \/ SavePutSettles("put1")
    \/ \E n \in Names : getFirmwareFromDB(n)
    \/ GetOpenOk
    \/ GetSettles
    \/ GetFails
    \/ \E c \in BOOLEAN : clearAllFirmwares(c)
    \/ \E e \in DeleteEvents : ClearResetSettles(e)
    \/ ClearListOpenOk
    \/ \E ok \in BOOLEAN : ClearListDone(ok)

InitClear ==
    /\ SessionInit
    /\ serialSupported = TRUE
    /\ StoreInit
    /\ FetchInit
    /\ CoordInit

ClearSpec == InitClear /\ [][ClearNext]_vars

(***************************************************************************)
(* The buttons of the listing and Clear All, on a database of the current  *)
(* version that holds app.bin and npg.bin.                                 *)
(***************************************************************************)
RemoveNext ==
    \/ DeletionCompletes
    \/ ConnectionsClosed
    \/ MountListOpenOk
    \/ \E ok \in BOOLEAN : MountListDone(ok)
    \/ \E n \in Names : loadFirmwareFromStorage(n)
    \/ GetOpenOk
    \/ GetSettles
    \/ GetFails
    \/ LoadGetReturned
    \/ \E n \in Names : deleteFirmwareFromStorage(n)
    \/ DeleteOpenOk
    \/ DeleteSettles
    \/ DeleteFails
    \/ RemoveDeleteReturned
    \/ RemoveListOpenOk
    \/ \E ok \in BOOLEAN : RemoveListDone(ok)
    \/ \E c \in BOOLEAN : clearAllFirmwares(c)
    \/ \E e \in DeleteEvents : ClearResetSettles(e)
    \/ ClearListOpenOk
    \/ \E ok \in BOOLEAN : ClearListDone(ok)

InitRemove ==
    /\ SessionInit
    /\ serialSupported = TRUE
    /\ dbVersion = DB_VERSION
    /\ hasStore = TRUE
    /\ records = {FirmwareRecord("app.bin", [len |-> 512, id |-> 1], 0),
                  FirmwareRecord("npg.bin", [len |-> 2048, id |-> 1], 0)}
    /\ connections = FALSE
    /\ deletePending = FALSE
    /\ now = 0
    /\ save = SaveIdle
    /\ saveTrace = TraceInit
    /\ saveOutcome = "none"
    /\ get = GetIdle
    /\ getResult = [outcome |-> "none", name |-> "", data |-> NullBlob]
    /\ del = GetIdle
    /\ delOutcome = "none"
    /\ lastWrite = [n \in Names |-> Unknown]
    /\ FetchInit
    /\ CoordInit

RemoveSpec == InitRemove /\ [][RemoveNext]_vars

(***************************************************************************)
(* Downloads that overlap: the dialog offers n.bin and a.bin and a second  *)
(* candidate may be clicked while the download of the first is pending.    *)
(***************************************************************************)
OverlapNext ==
    \/ ConnectionsClosed
    \/ MountListOpenOk
    \/ \E ok \in BOOLEAN : MountListDone(ok)
    \/ SaveOpenOk
    \/ SaveOpenFails
    \/ SavePutSettles("put1")
    \/ SaveRetryFails("reset")
    \/ \E c \in 1..MaxOverlap, i \in 1..MaxOverlap : downloadGithubFirmware(c, i)
    \/ \E c \in 1..MaxOverlap, r \in DownloadResponses : DownloadNoBody(c, r)
    \/ \E c \in 1..MaxOverlap : DownloadResponseOk(c)
    \/ \E c \in 1..MaxOverlap : DownloadBodyFails(c)
    \/ \E c \in 1..MaxOverlap, len \in BodyLengths : DownloadBodyRead(c, len)
    \/ \E c \in 1..MaxOverlap : DownloadSaveReturned(c)
    \/ \E c \in 1..MaxOverlap : DownloadListOpenOk(c)
    \/ \E c \in 1..MaxOverlap, ok \in BOOLEAN : DownloadListDone(c, ok)

InitOverlap ==
    /\ SessionInit
    /\ serialSupported = TRUE
    /\ StoreInit
    /\ dbVersion = DB_VERSION
    /\ Fetched(ReleaseTwoBins)
    /\ localFirmwares = {}
    /\ mount = [pc |-> "listOpen"]
    /\ upload = UploadIdle
    /\ uploadOutcome = "none"
    /\ saveCaller = "none"
    /\ clear = ClearIdle
    /\ clearOutcome = "none"
    /\ downloadingFirmware = NULL
    /\ download = [c \in 1..MaxOverlap |-> DownloadIdle]
    /\ downloadOutcome = [c \in 1..MaxOverlap |-> "none"]
    /\ remove = RemoveIdle
    /\ removeOutcome = "none"
    /\ load = LoadIdle

OverlapSpec == InitOverlap /\ [][OverlapNext]_vars

(***************************************************************************)
(* Properties of the session.                                              *)
(***************************************************************************)
\* this step dispatches a click to flashFirmware
FlashCallStep == pending = "flash" /\ pending' = "none" /\ ~FlashButtonDisabled

\* this step is a flashFirmware call that is rejected by one of its two guards
FlashRejectedStep == FlashCallStep /\ flash'.pc = "idle"

\* this step is the return of a flashFirmware call that passed its guards
FlashReturnStep == flash.pc # "idle" /\ flash'.pc = "idle"

\* nothing of the session but the dispatched click and the logged outcome changes
SessionUntouched ==
    UNCHANGED <<isConnected, isFlashing, progress, chipInfo, firmwareFile,
                flashAddress, transportRef, espLoaderRef, serialPortRef,
                serialSupported, portOpen, conn, disc, flash, flashIO>>

\* the addresses the texts of AddrInputs denote, where they are hex addresses
AddrValue(s) ==
    CASE s = Addr10000 -> 65536
      [] s = AddrPadded -> 31
      [] OTHER -> -1

C2_ProgressMonotone ==
    /\ [][flash.pc # "idle" => progress' >= progress]_vars
    /\ [](progress \in 0..100)
    /\ [](flashOutcome = "Completed" => progress = 100)
    /\ [](flash.pc = "readFile" => progress = 0)
    /\ [](flash.pc = "write" => progress >= 10)

\* C2 witness: a write in progress, two thirds reported: round(10 + 90 * 2/3) = 70
C2_Witness ==
    /\ flash.pc = "write"
    /\ flash.total = 3
    /\ flash.written = 2
    /\ progress = 70

NoHandleBound ==
    /\ transportRef = NULL
    /\ espLoaderRef = NULL
    /\ serialPortRef = NULL
    /\ ~isConnected

\* C3 as stated: after any flashFirmware call returns, a call rejected by a
\* guard included, no DeviceLink handle is bound
C3_NoHandleAfterAnyReturn ==
    [][(FlashReturnStep \/ FlashRejectedStep) => NoHandleBound']_vars

\* C3 as amended: after a flashFirmware call that passed its guards returns, by
\* success or by failure, no handle is bound and isConnected is false; a call
\* rejected by a guard leaves the refs, isConnected and chipInfo as they were
C3_NoHandleAfterFlashRan ==
    /\ [][FlashReturnStep => NoHandleBound']_vars
    /\ [][FlashRejectedStep => UNCHANGED linkVars]_vars

\* C3 witness: a flash that succeeded has returned and nothing is bound
C3_Witness ==
    /\ flashOutcome = "Completed"
    /\ flash.pc = "idle"
    /\ NoHandleBound

NoCallInFlight ==
    /\ pending = "none"
    /\ \A c \in DOMAIN conn : conn[c].pc = "idle"
    /\ \A d \in DOMAIN disc : disc[d].pc = "idle"
    /\ flash.pc = "idle"

SessionConnected ==
    /\ isConnected
    /\ chipInfo # ""
    /\ transportRef # NULL
    /\ espLoaderRef # NULL
    /\ serialPortRef # NULL
    /\ ~isFlashing

SessionIdle ==
    /\ ~isConnected
    /\ chipInfo = ""
    /\ transportRef = NULL
    /\ espLoaderRef = NULL
    /\ serialPortRef = NULL
    /\ ~isFlashing

\* C4: whenever no session operation is in flight the session is Connected or
\* Idle, never a mix of the two
C4_ConnectedOrIdle == NoCallInFlight => (SessionConnected \/ SessionIdle)

\* a pending call still holds the port and may yet close it
HeldByCall(p) ==
    \/ \E c \in DOMAIN conn : conn[c].pc # "idle" /\ conn[c].port = p
    \/ \E d \in DOMAIN disc : disc[d].pc # "idle" /\ disc[d].port = p
    \/ flash.pc # "idle" /\ (flash.port = p \/ flash.loader = p)

\* C5: no port is open that the session no longer references
C5_NeverHalfOpen ==
    \A p \in Ports : portOpen[p] => (serialPortRef = p \/ HeldByCall(p))

SessionState ==
    IF flash.pc \in {"readFile", "write"} THEN "Flashing"
    ELSE IF flash.pc \in {"signal1", "signal2", "disconnect", "close"} THEN "Finalizing"
    ELSE IF flash.pc \in {"errDisconnect", "errClose"} THEN "Erroring"
    ELSE IF \E c \in DOMAIN conn : conn[c].pc \in {"requestPort", "main"}
    THEN "Connecting"
    ELSE IF isConnected THEN "Connected"
    ELSE "Idle"

HandleExists ==
    \/ transportRef # NULL
    \/ espLoaderRef # NULL
    \/ serialPortRef # NULL

\* C13: in every state a handle is bound if and only if the session is
\* Connected, Flashing or Finalizing
C13_HandleIffLinked ==
    HandleExists <=> SessionState \in {"Connected", "Flashing", "Finalizing"}

\* the flash call is in the housekeeping that follows a successful write
Housekeeping == flash.pc \in {"signal1", "signal2", "disconnect", "close"}

\* C14: once writeFlash has resolved the call reports Completed with progress
\* 100, and whatever setSignals, transport.disconnect and port.close do in the
\* housekeeping, the call returns with that outcome and that progress
C14_WriteSuccessStaysSuccess ==
    /\ [][(flash.pc = "write" /\ flashOutcome' # "Error" /\ flash'.pc # "write") =>
             (flashOutcome' = "Completed" /\ progress' = 100)]_vars
    /\ [](Housekeeping => (flashOutcome = "Completed" /\ progress = 100))
    /\ [][Housekeeping =>
             (flashOutcome' = "Completed" /\ progress' = 100 /\
              flash'.pc \notin {"errDisconnect", "errClose"})]_vars

\* the write succeeded and the call has returned Completed although the
\* housekeeping left the port open (disconnect threw, or close failed)
C14_Witness ==
    /\ flash.pc = "idle"
    /\ flashOutcome = "Completed"
    /\ progress = 100
    /\ \E p \in Ports : portOpen[p]
    /\ serialPortRef = NULL
    /\ \A c \in DOMAIN conn : conn[c].pc = "idle"

\* the session operations in flight
OperationsInFlight ==
    {<<"connect", c>> : c \in {k \in DOMAIN conn : conn[k].pc # "idle"}}
       \cup {<<"disconnect", d>> : d \in {k \in DOMAIN disc : disc[k].pc # "idle"}}
       \cup (IF flash.pc # "idle" THEN {<<"flash", 1>>} ELSE {})

\* C15: a session operation requested while a connectToDevice or a
\* flashFirmware call is pending is rejected at once, so that no two
\* operations are ever in flight on the session
C15_OneOperationAtATime == Cardinality(OperationsInFlight) <= 1

\* this step is a connectToDevice call that goes on to request a port
ConnectRequestsPort(c) == conn[c].pc = "idle" /\ conn'[c].pc = "requestPort"

\* C16: connectToDevice requests a port only when no handle is bound and no
\* earlier connectToDevice call is pending, and a call binds the refs only when
\* they are not bound
C16_ConnectOnlyWhenUnbound ==
    /\ [][\A c \in DOMAIN conn : ConnectRequestsPort(c) =>
             /\ ~HandleExists
             /\ \A k \in DOMAIN conn : conn[k].pc = "idle"]_vars
    /\ [][\A c \in DOMAIN conn :
             (conn[c].pc = "requestPort" /\ conn'[c].pc = "main") => ~HandleExists]_vars

\* the handshake of a connectToDevice call fails: the call ends and the
\* session is not connected
HandshakeFailsStep(c) == conn[c].pc = "main" /\ conn'[c].pc = "idle" /\ ~isConnected'

\* C22: when the handshake of a connectToDevice call fails, the call leaves
\* the port it acquired closed and the three refs null
C22_FailedConnectReleasesPort ==
    [][\A c \in DOMAIN conn : HandshakeFailsStep(c) =>
          /\ ~portOpen'[conn[c].port]
          /\ ~HandleExists']_vars

\* C23: the housekeeping after a successful write goes from the setSignals
\* pulse to transport.disconnect and from there to port.close; when the
\* setSignals or the disconnect step ends, by resolving or by throwing, the
\* next step is invoked if its handle is bound (and, for close, the port open)
C23_HousekeepingRunsEveryStep ==
    /\ [][(flash.pc \in {"signal1", "signal2"} /\ flash'.pc # flash.pc) =>
             \/ flash.pc = "signal1" /\ flash'.pc = "signal2"
             \/ IF transportRef # NULL THEN flash'.pc = "disconnect"
                ELSE IF serialPortRef # NULL /\ portOpen'[serialPortRef]
                THEN flash'.pc = "close"
                ELSE flash'.pc = "idle"]_vars
    /\ [][(flash.pc = "disconnect" /\ flash'.pc # "disconnect") =>
             IF serialPortRef # NULL /\ portOpen'[serialPortRef]
             THEN flash'.pc = "close"
             ELSE flash'.pc = "idle" /\ ~HandleExists']_vars

\* the flash call is in the cleanup of its catch block
Erroring == flash.pc \in {"errDisconnect", "errClose"}

\* C24: after a failure of the flash phase the cleanup attempts
\* transport.disconnect and then, the port being bound and open, port.close,
\* whether the disconnect resolved or threw; the call ends with the one
\* outcome Error, the refs null, isConnected false and isFlashing false
C24_FlashFailureCleansUp ==
    /\ [][(flash.pc = "errDisconnect" /\ flash'.pc # "errDisconnect") =>
             IF serialPortRef # NULL /\ portOpen'[serialPortRef]
             THEN flash'.pc = "errClose"
             ELSE flash'.pc = "idle"]_vars
    /\ [][(Erroring /\ flash'.pc = "idle") =>
             /\ flashOutcome' = "Error"
             /\ ~HandleExists'
             /\ ~isConnected'
             /\ ~isFlashing']_vars
    /\ [][Erroring => flashOutcome' = flashOutcome]_vars

\* C25: the progress becomes 100 only in the step that reports the success
\* of the write, a call that ends in failure has not reported 100, and no
\* progress value is set while no call is in flight
C25_HundredOnlyOnSuccess ==
    /\ [][(progress' = 100 /\ progress # 100) => flashOutcome' = "Completed"]_vars
    /\ [][(flashOutcome' = "Error" /\ flashOutcome # "Error") => progress' # 100]_vars
    /\ [][(flash.pc = "idle" /\ flash'.pc = "idle") => progress' = progress]_vars

\* the handshake of a connectToDevice call succeeds
HandshakeOkStep(c) == \E chip \in Chips, m \in BOOLEAN : ConnectHandshakeOk(c, chip, m)

\* the MAC probe of a connectToDevice call ends, by a result or by a throw
ProbeEndsStep(c) == conn[c].pc = "readMac" /\ conn'[c].pc = "idle"

\* the three refs hold the handles of the port
BoundTo(p) == transportRef = p /\ espLoaderRef = p /\ serialPortRef = p

\* C32: the step of a successful handshake sets isConnected and the chip name
\* and keeps the refs, whether or not the loader has readMac; the end of the
\* probe, by a result or by a throw, changes neither isConnected nor chipInfo
\* nor a ref nor the port and does not take the error path; so a call that
\* ran with its handles bound is Connected with them bound at both steps
C32_MacProbeBestEffort ==
    /\ [][\A c \in DOMAIN conn :
            HandshakeOkStep(c) =>
               /\ isConnected'
               /\ chipInfo' \in Chips
               /\ UNCHANGED <<transportRef, espLoaderRef, serialPortRef>>
               /\ BoundTo(conn[c].port) =>
                     /\ transportRef' = conn[c].port
                     /\ espLoaderRef' = conn[c].port
                     /\ serialPortRef' = conn[c].port]_vars
    /\ [][\A c \in DOMAIN conn :
            ProbeEndsStep(c) =>
               UNCHANGED <<isConnected, chipInfo, transportRef, espLoaderRef,
                           serialPortRef, portOpen>>]_vars
    /\ [](\A c \in DOMAIN conn :
            (conn[c].pc = "readMac" /\ BoundTo(conn[c].port) /\ isConnected) =>
               chipInfo \in Chips)

\* the handshake of the first call succeeded with a loader that has readMac:
\* the probe is pending, the session is Connected and the handles are bound
C32_Witness ==
    /\ conn[1].pc = "readMac"
    /\ conn[2].pc = "idle"
    /\ isConnected
    /\ chipInfo = "ESP32-C6"
    /\ BoundTo("portA")
    /\ portOpen["portA"]
    /\ disc[1].pc = "idle"
    /\ flash.pc = "idle"

\* a disconnectDevice call returns: at once when there was nothing to await,
\* or from one of its awaits
DisconnectReturnStep(d) ==
    \/ disconnectDevice(d) /\ disc'[d].pc = "idle"
    \/ disc[d].pc # "idle" /\ disc'[d].pc = "idle"

\* C33: when a disconnectDevice call returns, the three refs are null,
\* isConnected is false and chipInfo is empty, whatever the state it was called
\* in and whether transport.disconnect and port.close resolved or threw; a
\* call leaves its awaits only by that return or towards port.close
C33_DisconnectEndsIdle ==
    /\ [][\A d \in DOMAIN disc :
            DisconnectReturnStep(d) =>
               /\ transportRef' = NULL
               /\ espLoaderRef' = NULL
               /\ serialPortRef' = NULL
               /\ ~isConnected'
               /\ chipInfo' = ""]_vars
    /\ [][\A d \in DOMAIN disc :
            (disc[d].pc = "disconnect" /\ disc'[d] # disc[d]) =>
               disc'[d].pc \in {"close", "idle"}]_vars

\* a Disconnect clicked during the MAC probe has returned, no flash having
\* run: nothing is bound, isConnected is false, chipInfo is empty, and the port
\* is still open because transport.disconnect or port.close threw
C33_Witness ==
    /\ conn[1].pc = "readMac"
    /\ disc[1].pc = "idle"
    /\ flash.pc = "idle"
    /\ flashOutcome = "none"
    /\ ~isConnected
    /\ chipInfo = ""
    /\ transportRef = NULL
    /\ espLoaderRef = NULL
    /\ serialPortRef = NULL
    /\ portOpen["portA"]

(***************************************************************************)
(* Properties of the store.                                                *)
(***************************************************************************)
\* a getFirmwareFromDB call resolves
GetResolvesStep == get.pc = "request" /\ get'.pc = "idle" /\ getResult'.outcome = "ok"

\* a saveFirmwareToDB call has settled
SaveSettled == save.pc = "idle" /\ saveOutcome # "none"

\* C7: a get of a name resolves with the bytes of the last save of that name
\* when no write to the name (a save, a delete, a reset of the database)
\* settled since, and with null when the last write to the name was a delete
C7_PutGetRoundTrip ==
    [][GetResolvesStep =>
         /\ lastWrite[get.name].kind = "put" =>
               getResult'.data = lastWrite[get.name].data
         /\ lastWrite[get.name].kind = "delete" =>
               getResult'.data = NullBlob]_vars

\* a get resolved with the bytes of a save that replaced an older record of
\* the name
C7_Witness ==
    /\ getResult.outcome = "ok"
    /\ getResult.name = "npg.bin"
    /\ getResult.data = [len |-> 512, id |-> 2]
    /\ lastWrite["npg.bin"] = WrittenPut([len |-> 512, id |-> 2])
    /\ saveOutcome = "ok"
    /\ Cardinality(records) = 1

\* C8: a save whose first attempt hit a fault (open, transaction, request) made
\* exactly one reset of the database before it settled; no save makes more
\* than one reset or more than two write attempts
C8_FaultTriggersOneRecovery ==
    /\ saveTrace.resets <= 1
    /\ saveTrace.puts <= 2
    /\ (SaveSettled /\ saveTrace.firstFault # "none") => saveTrace.resets = 1

\* C9: a save whose retry failed (reset, reopen, or the retried write) settled
\* with the StorageUnavailable error and left the store without records
C9_RetryFailureUnavailableAndEmpty ==
    (SaveSettled /\ saveTrace.retryFault # "none") =>
        /\ saveOutcome = "StorageUnavailable"
        /\ records = {}

\* this step is the deleteFirmwareFromDB call returning normally
DeleteReturnsStep == del.pc = "request" /\ del'.pc = "idle" /\ delOutcome' # "fault"

InStore(name) == \E x \in records : KeyOf(x) = name

\* C17: a deleteFirmwareFromDB call for a name that is not in the store returns
\* NotFound and leaves the store as it was; for a name that is in the store it
\* returns ok and removes that record and no other
C17_DeleteAbsentIsNotFound ==
    [][DeleteReturnsStep =>
         IF InStore(del.name)
         THEN /\ delOutcome' = "ok"
              /\ records' = {x \in records : KeyOf(x) # del.name}
         ELSE /\ delOutcome' = "NotFound"
              /\ records' = records]_vars

\* this step is an openDB() of a store call resolving
OpenResolvesStep ==
    \/ save.pc = "open1" /\ save'.pc = "put1"
    \/ save.pc = "open2" /\ save'.pc = "put2"
    \/ get.pc = "open" /\ get'.pc = "request"
    \/ del.pc = "open" /\ del'.pc = "request"

\* a store call has its connection and is reading or writing
StoreRequestPending ==
    \/ save.pc \in {"put1", "put2"}
    \/ get.pc = "request"
    \/ del.pc = "request"

\* C28: when openDB resolves the database is at version 2 with the object
\* store; opened from a version below 2 the object store is empty, opened at
\* version 2 it has every record it had; no call reads or writes a database
\* that is not at version 2
C28_MigrationOnceBeforeUse ==
    /\ [][OpenResolvesStep =>
             /\ dbVersion' = DB_VERSION
             /\ hasStore'
             /\ records' = IF dbVersion < DB_VERSION THEN {} ELSE records]_vars
    /\ [](StoreRequestPending => (dbVersion = DB_VERSION /\ hasStore))

\* a version-1 database with a record of npg.bin was opened: the record is
\* gone, the database is at version 2, and a get of npg.bin resolved with null
C28_Witness ==
    /\ dbVersion = DB_VERSION
    /\ hasStore
    /\ records = {}
    /\ lastWrite["npg.bin"].kind = "upgrade"
    /\ getResult.outcome = "ok"
    /\ getResult.name = "npg.bin"
    /\ getResult.data = NullBlob

\* a put of saveFirmwareToDB succeeds
PutSettlesStep == save.pc \in {"put1", "put2"} /\ save'.pc = "idle" /\ saveOutcome' = "ok"

\* C29: in every state each record has size = byteLength(data) and no two
\* records have the same name; a save of a name already in the store replaces
\* that record: afterwards a get of the name gives the new bytes, the listing
\* has exactly one entry of the name and the other records are untouched
C29_RecordsWellFormed ==
    /\ [](\A r \in records : r.size = r.data.len)
    /\ [](\A x, y \in records : x.name = y.name => x = y)
    /\ [][(PutSettlesStep /\ InStore(save.name)) =>
             /\ StoreGet(records', save.name).data = save.data
             /\ Cardinality({e \in Listing(records') : e.name = save.name}) = 1
             /\ {r \in records' : r.name # save.name} =
                   {r \in records : r.name # save.name}]_vars

\* a get found npg.bin with 2048 bytes; no delete, reset or migration took
\* place; then a save of 512 bytes under the name settled and the store holds
\* one record, of that name, with the new bytes and their length
C29_Witness ==
    /\ getResult.outcome = "ok"
    /\ getResult.name = "npg.bin"
    /\ getResult.data = [len |-> 2048, id |-> 1]
    /\ lastWrite["app.bin"].kind = "unknown"
    /\ del.pc = "idle"
    /\ delOutcome = "none"
    /\ saveOutcome = "ok"
    /\ save.pc = "idle"
    /\ lastWrite["npg.bin"] = WrittenPut([len |-> 512, id |-> 2])
    /\ Cardinality(records) = 1
    /\ \E r \in records : r.name = "npg.bin" /\ r.data = [len |-> 512, id |-> 2] /\ r.size = 512

\* the records other than the one of the name being saved
OtherRecords(rs) == {r \in rs : KeyOf(r) # save.name}

\* the first openDB of a saveFirmwareToDB call resolves
FirstOpenStep == save.pc = "open1" /\ save'.pc = "put1"

\* the put of a first attempt changes the record of the name alone, the put
\* of a retry leaves the record just written as the only one, and the call
\* itself, up to its first await, changes no record
PutFrames ==
    /\ [][(save.pc = "idle" /\ save'.pc = "open1") => records' = records]_vars
    /\ [][(PutSettlesStep /\ save.pc = "put1") =>
             /\ OtherRecords(records') = OtherRecords(records)
             /\ records' \ OtherRecords(records') =
                   {FirmwareRecord(save.name, save.data, save.timestamp)}]_vars
    /\ [][(PutSettlesStep /\ save.pc = "put2") =>
             /\ saveTrace.resets = 1
             /\ records' = {FirmwareRecord(save.name, save.data, save.timestamp)}]_vars

\* C34: a save without a fault changes the record of its name alone, except
\* that its openDB, when it finds a database of an older version, performs the
\* migration, which destroys every record before the write; a save that
\* self-healed and succeeded on retry leaves exactly the record just written
C34_SaveFrame ==
    /\ PutFrames
    /\ [][FirstOpenStep =>
             records' = IF dbVersion < DB_VERSION THEN {} ELSE records]_vars

\* a get had found npg.bin cached; then a save of app.bin failed to open the
\* database, reset it and succeeded on retry: app.bin is the only record
C34_Witness ==
    /\ saveOutcome = "ok"
    /\ save.pc = "idle"
    /\ saveTrace.resets = 1
    /\ saveTrace.puts = 1
    /\ getResult.outcome = "ok"
    /\ getResult.name = "npg.bin"
    /\ getResult.data = [len |-> 2048, id |-> 1]
    /\ lastWrite["npg.bin"].kind \in {"reset", "resetBlocked"}
    /\ Cardinality(records) = 1
    /\ \E r \in records : r.name = "app.bin" /\ r.data = [len |-> 512, id |-> 1]

\* C34 as stated: no step of a save without a fault changes a record other
\* than the one of its name
C34_SaveChangesOnlyItsName ==
    /\ PutFrames
    /\ [][FirstOpenStep => records' = records]_vars

(***************************************************************************)
(* Properties of the release fetcher.                                      *)
(***************************************************************************)
\* a request succeeded: success status and a body that parsed to a release
Succeeded(e) == e.result = "ok" /\ Truthy(e.body)

LastRequest == fetchLog[Len(fetchLog)]

\* C10: the requests of a call are a prefix of direct, allOrigins, corsProxy;
\* no request follows one that succeeded; the candidates a call yields are
\* those of the response of its last request, which succeeded
C10_OrderedFirstSuccessWins ==
    /\ Len(fetchLog) <= Len(Strategies)
    /\ \A i \in 1..Len(fetchLog) : fetchLog[i].strategy = Strategies[i]
    /\ \A i \in 1..(Len(fetchLog) - 1) : ~Succeeded(fetchLog[i])
    /\ fetchOutcome \in {"Found", "Empty"} =>
          /\ Succeeded(LastRequest)
          /\ Candidates(LastRequest.body) =
                IF fetchOutcome = "Found" THEN githubFirmwares ELSE <<>>
    /\ fetchOutcome = "FetchUnavailable" =>
          \A i \in 1..Len(fetchLog) : ~Succeeded(fetchLog[i])

\* the direct request failed, the first proxy answered with a release, and
\* the call yielded the .bin asset of that release
C10_Witness ==
    /\ fetchOutcome = "Found"
    /\ Len(fetchLog) = 2
    /\ fetchLog[1].result = "throws"
    /\ fetchLog[2].body = ReleaseMixed
    /\ githubFirmwares = <<[name |-> NameAppBin, url |-> "url2"]>>

\* a fetchGithubReleases call returns
FetchReturnStep == fetch.pc # "idle" /\ fetch'.pc = "idle"

\* every request of the call failed: the fetch threw (network error, timeout)
\* or the status was not a success
AllRequestsFailed(log) ==
    /\ Len(log) = Len(Strategies)
    /\ \A i \in 1..Len(log) : log[i].result \in {"throws", "notOk"}

\* C11: a call whose three requests all failed ends with FetchUnavailable (the
\* catch block that logs the manual-download guidance), with isFetchingGithub
\* false and with the candidate list and the selected firmware as they were;
\* a call that has returned makes no request until the user asks again
C11_AllFailedIsFetchUnavailable ==
    /\ [][(FetchReturnStep /\ AllRequestsFailed(fetchLog')) =>
             /\ fetchOutcome' = "FetchUnavailable"
             /\ isFetchingGithub' = FALSE
             /\ UNCHANGED <<githubFirmwares, showGithubDialog, firmwareFile>>]_vars
    /\ [][(fetch.pc = "idle" /\ fetchLog' # fetchLog) =>
             (fetchLog' = <<>> /\ fetch'.pc = "direct")]_vars
    /\ [](fetchOutcome = "FetchUnavailable" => ~isFetchingGithub)

\* the three requests of a call failed, after an earlier call had found
\* candidates: the list of the earlier call is still there
C11_Witness ==
    /\ fetchOutcome = "FetchUnavailable"
    /\ AllRequestsFailed(fetchLog)
    /\ fetchLog[2].result = "notOk"
    /\ githubFirmwares = <<[name |-> NameNpgBin, url |-> "url4"]>>
    /\ ~isFetchingGithub

\* C21: a call whose last request succeeded with a release that has no .bin
\* asset ends as a success without candidates: not with FetchUnavailable, and
\* with the candidate list empty afterwards
C21_NoBinaryIsEmptyList ==
    [][(/\ FetchReturnStep
        /\ Succeeded(fetchLog'[Len(fetchLog')])
        /\ Len(Candidates(fetchLog'[Len(fetchLog')].body)) = 0) =>
           /\ fetchOutcome' = "Empty"
           /\ githubFirmwares' = <<>>]_vars

\* the last four characters of the name are . b i n
HasBinSuffix(name) ==
    /\ Len(name) >= 4
    /\ name[Len(name) - 3] = "."
    /\ name[Len(name) - 2] = "b"
    /\ name[Len(name) - 1] = "i"
    /\ name[Len(name)] = "n"

\* the positions of the assets of a release whose name has the suffix
BinPositions(body) ==
    IF body.hasAssets
    THEN {i \in 1..Len(body.assets) : HasBinSuffix(body.assets[i].name)}
    ELSE {}

\* the list is the assets at the positions, in their order, as {name, url}
ListsPositions(list, body, pos) ==
    /\ Len(list) = Cardinality(pos)
    /\ \A i \in pos :
          LET k == Cardinality({j \in pos : j <= i})
          IN list[k] = [name |-> body.assets[i].name,
                        url |-> body.assets[i].browser_download_url]

\* C31: a call that returns after a request succeeded sets the candidate list
\* exactly when the release has an asset whose name ends in .bin, and then to
\* those assets, in the order of the release, each as {name, url =
\* browser_download_url}; a release without the field assets yields none; no
\* candidate ever has a name with another suffix
C31_CandidatesAreBinAssets ==
    /\ [][(FetchReturnStep /\ Succeeded(fetchLog'[Len(fetchLog')])) =>
            LET body == fetchLog'[Len(fetchLog')].body
                pos == BinPositions(body)
            IN /\ (fetchOutcome' = "Found") = (pos # {})
               /\ fetchOutcome' = "Found" => ListsPositions(githubFirmwares', body, pos)
               /\ fetchOutcome' # "Found" =>
                     (fetchOutcome' = "Empty" /\ githubFirmwares' = githubFirmwares)
               /\ ~body.hasAssets => fetchOutcome' = "Empty"]_vars
    /\ [](\A k \in 1..Len(githubFirmwares) : HasBinSuffix(githubFirmwares[k].name))

\* the direct request answered with a release of n.bin, bin.txt and a.bin: the
\* candidates are n.bin and a.bin, in that order, with their urls
C31_Witness ==
    /\ fetchOutcome = "Found"
    /\ Len(fetchLog) = 1
    /\ fetchLog[1].body = ReleaseTwoBins
    /\ githubFirmwares = <<[name |-> NameNpgBin, url |-> "url4"],
                           [name |-> NameAppBin, url |-> "url2"]>>

(***************************************************************************)
(* Properties of the coordinator.                                          *)
(***************************************************************************)
\* the listing has an entry with the name and the size of the file picked
UploadListed ==
    \E e \in localFirmwares : e.name = upload.name /\ e.size = upload.data.len

\* the flash has ended in success
FlashSucceeded ==
    /\ flash.pc = "idle"
    /\ ~isFlashing
    /\ flashOutcome = "Completed"
    /\ progress = 100

\* C12: in the scenario of a first flash with a file whose name ends in .bin
\* (app.bin of 512 bytes is one), the flash ends in success with progress 100,
\* the listing refreshed after the save has the file with its size, and both
\* come about
C12_FirstFlashScenario ==
    /\ []((flash.pc = "idle" /\ flashOutcome # "none") => FlashSucceeded)
    /\ [](uploadOutcome = "Listed" => UploadListed)
    /\ <>(FlashSucceeded /\ uploadOutcome = "Listed" /\ UploadListed)

\* app.bin of 512 bytes was picked and flashed, and the listing shows it
C12_Witness ==
    /\ FlashSucceeded
    /\ firmwareFile = "app.bin"
    /\ uploadOutcome = "Listed"
    /\ \E e \in localFirmwares : e.name = "app.bin" /\ e.size = 512

\* the last write to the name that settled is a resetDatabase that returned
ResetSince(n) == lastWrite[n].kind \in {"reset", "resetBlocked"}

\* the loadLocalFirmwares of clearAllFirmwares returns with a listing
ClearListedStep == clear.pc = "listRequest" /\ clear'.pc = "idle" /\ clear'.listed

\* C18: once resetDatabase has returned ok, blocked or not, and no save has
\* settled since, the list that follows it returns no record, and a get that
\* follows it returns null for every name (a get that resolves while the
\* deletion is pending was opened before the reset returned)
C18_NoRecordAfterReset ==
    [][/\ (ClearListedStep /\ \A n \in Names : ResetSince(n)) =>
             localFirmwares' = {}
       /\ (GetResolvesStep /\ ResetSince(get.name) /\ ~deletePending) =>
             getResult'.data = NullBlob]_vars

\* a clearAllFirmwares whose deletion was blocked has listed no record, and
\* a get after it has resolved with null, in the database the list re-created
C18_Witness ==
    /\ clear.pc = "idle"
    /\ clear.event = "blocked"
    /\ clear.listed
    /\ clearOutcome = "Cleared"
    /\ localFirmwares = {}
    /\ \A n \in Names : lastWrite[n].kind = "resetBlocked"
    /\ getResult.outcome = "ok"
    /\ getResult.data = NullBlob
    /\ get.pc = "idle"
    /\ dbVersion = DB_VERSION
    /\ ~deletePending

\* the deleteDatabase request of clearAllFirmwares' resetDatabase fires
ClearResetStep == clear.pc = "reset" /\ clear'.pc # "reset"

\* the database does not exist
StoreGone == dbVersion = 0 /\ ~hasStore /\ records = {}

\* C19: resetDatabase returns ok whenever deleteDatabase reports success or
\* blocked (an absent or empty database, open connections; behind a deletion
\* under way it waits and then returns ok); after it returned the database is
\* gone or its deletion is pending; applied to a database that is gone it
\* changes nothing, so that twice in a row is the same as once
C19_ResetIdempotentNeverBusy ==
    [][ClearResetStep =>
         /\ clear'.event # "error" => clear'.pc = "listOpen"
         /\ clear'.pc = "listOpen" =>
               /\ StoreGone' \/ deletePending'
               /\ StoreGone => UNCHANGED <<dbVersion, hasStore, records,
                                            connections, deletePending>>]_vars

\* resetDatabase has returned ok from a blocked deletion: the records are
\* still there and the deletion is pending
C19_Witness ==
    /\ clear.pc = "listOpen"
    /\ clear.event = "blocked"
    /\ deletePending
    /\ records # {}

\* the positions of a downloadGithubFirmware call in its fetch phase
FetchPhase == {"fetch", "arrayBuffer"}

\* C20: a downloadGithubFirmware call leaves its fetch phase towards the save
\* with a body of at least the minimum size, or else (the fetch threw, the
\* status was not 200, the response was HTML, the body could not be read or
\* was undersized) it ends with DownloadFailed, and then it has written
\* nothing to the store, called neither save nor get, and left the selected
\* firmware and the listing as they were; no step of the fetch phase touches
\* the records or the selection
C20_FailedFetchIsDownloadFailed ==
    [][\A c \in DOMAIN download :
         /\ (download[c].pc \in FetchPhase /\ download'[c].pc \notin FetchPhase) =>
               \/ /\ download'[c].pc = "save"
                  /\ save'.name = download[c].name
                  /\ save'.data.len >= MinBytes
               \/ /\ download'[c].pc = "idle"
                  /\ downloadOutcome'[c] = "DownloadFailed"
                  /\ UNCHANGED <<records, firmwareFile, localFirmwares, save, get,
                                 getResult>>
         /\ (download[c].pc \in FetchPhase /\ download'[c] # download[c]) =>
               UNCHANGED <<records, firmwareFile, get>>]_vars

\* a download of npg.bin has failed in its fetch phase (no save was ever
\* called) while a record of npg.bin is cached and app.bin is selected
C20_Witness ==
    /\ downloadOutcome[1] = "DownloadFailed"
    /\ download[1].pc = "idle"
    /\ downloadingFirmware = NULL
    /\ save.pc = "idle"
    /\ saveOutcome = "none"
    /\ \E r \in records : r.name = "npg.bin"
    /\ firmwareFile = "app.bin"
    /\ get.pc = "idle"
    /\ getResult.outcome = "none"

\* this step selects a newly imported binary
SelectsImported == firmwareFile' # firmwareFile /\ firmwareFile' # NoFile

\* C26: whenever handleFileUpload or downloadGithubFirmware sets the selection,
\* a record of that name is in the store, with the bytes of the file when the
\* step is an upload
C26_SelectedAfterPersisted ==
    [][SelectsImported =>
         \E r \in records :
            /\ r.name = firmwareFile'
            /\ upload'.pc = "arrayBuffer" => r.data = upload'.data]_vars

\* no handler and no store call is in flight, and no deletion is pending
StoreQuiet ==
    /\ mount.pc = "idle"
    /\ upload.pc = "idle"
    /\ clear.pc = "idle"
    /\ \A c \in DOMAIN download : download[c].pc = "idle"
    /\ save.pc = "idle"
    /\ get.pc = "idle"
    /\ del.pc = "idle"
    /\ ~deletePending

\* C27: whenever no store operation is in flight the listing localFirmwares
\* is that of the records in the store
C27_ListingEqualsStore ==
    StoreQuiet => localFirmwares = Listing(records)

\* the responses that are not status 200 with a content type other than HTML
Unacceptable == {"throws", "notOk", "html"}

\* a call that ends here ends with the failure report and has neither written
\* to the store nor called a save nor changed the selection
RejectsUnstored(c) ==
    /\ download'[c].pc = "idle"
    /\ downloadOutcome'[c] = "DownloadFailed"
    /\ UNCHANGED <<records, save, firmwareFile, showGithubDialog>>

\* the acceptance rule of downloadGithubFirmware: a response that threw, was
\* not 200 or was HTML is rejected from the fetch itself, its body not read;
\* a body that was read is rejected when shorter than 1000 bytes and handed to
\* saveFirmwareToDB, under the name of the candidate and with the bytes as
\* read, when it has 1000 bytes or more; nothing else calls the save
AcceptanceRule ==
    [][\A c \in DOMAIN download :
         /\ \A r \in Unacceptable :
               DownloadNoBody(c, r) => (download[c].pc = "fetch" /\ RejectsUnstored(c))
         /\ \A len \in BodyLengths :
               DownloadBodyRead(c, len) =>
                  IF len < MinBytes
                  THEN RejectsUnstored(c)
                  ELSE /\ download'[c].pc = "save"
                       /\ save'.name = download[c].name
                       /\ save'.data = Downloaded(len)
                       /\ records' = records
         /\ (download[c].pc # "save" /\ download'[c].pc = "save") =>
               (download[c].pc = "arrayBuffer" /\ save'.data.len >= MinBytes)]_vars

\* the put of the save called by a download succeeds: the record of the
\* candidate's name holds the bytes handed to the save
StoredAsRead ==
    [][(PutSettlesStep /\ saveCaller = "download") =>
          \A c \in DOMAIN download :
             download[c].pc = "save" =>
                /\ save.name = download[c].name
                /\ StoreGet(records', download[c].name).data = save.data
                /\ StoreGet(records', download[c].name).size = save.data.len]_vars

\* the phase of a download after its body was accepted
AcceptedPhase == {"save", "listOpen", "listRequest"}

\* C30: the acceptance rule holds; a record stored by a download has the
\* candidate's name and the bytes read; an accepted download whose save
\* succeeded ends as Downloaded with the candidate selected and the dialog
\* closed, and an accepted download ends as DownloadFailed only from its save
\* and only when the save failed, selecting nothing
C30_AcceptedStoredWhenSaveSucceeds ==
    /\ AcceptanceRule
    /\ StoredAsRead
    /\ [][\A c \in DOMAIN download :
            (download[c].pc \in AcceptedPhase /\ download'[c].pc = "idle") =>
               IF download[c].pc = "save" /\ saveOutcome # "ok"
               THEN /\ downloadOutcome'[c] = "DownloadFailed"
                    /\ UNCHANGED <<firmwareFile, showGithubDialog, records>>
               ELSE /\ download[c].pc # "save"
                    /\ downloadOutcome'[c] = "Downloaded"
                    /\ firmwareFile' = download[c].name
                    /\ ~showGithubDialog']_vars

\* a body of exactly 1000 bytes was downloaded as npg.bin: the record holds
\* it, the call reported success and npg.bin is selected
C30_Witness ==
    /\ downloadOutcome[1] = "Downloaded"
    /\ download[1].pc = "idle"
    /\ firmwareFile = "npg.bin"
    /\ ~showGithubDialog
    /\ \E r \in records : r.name = "npg.bin" /\ r.data = Downloaded(MinBytes) /\ r.size = MinBytes

\* C30 as stated: the acceptance rule holds and every accepted download
\* stores its body and ends as Downloaded
C30_AcceptedAlwaysStored ==
    /\ AcceptanceRule
    /\ StoredAsRead
    /\ [][\A c \in DOMAIN download :
            (download[c].pc \in AcceptedPhase /\ download'[c].pc = "idle") =>
               /\ downloadOutcome'[c] = "Downloaded"
               /\ firmwareFile' = download[c].name
               /\ \E r \in records' : r.name = download[c].name]_vars

\* a deleteFirmwareFromStorage call returns after its delete succeeded
RemoveSucceedsStep == remove.pc \in {"listOpen", "listRequest"} /\ remove'.pc = "idle"

\* a deleteFirmwareFromStorage call returns from its catch block
RemoveFailsStep == remove.pc = "delete" /\ remove'.pc = "idle"

\* a clearAllFirmwares call returns after its reset succeeded
ClearSucceedsStep == clear.pc \in {"listOpen", "listRequest"} /\ clear'.pc = "idle"

\* a clearAllFirmwares call returns declined, or from its catch block
ClearFailsStep ==
    \/ clearAllFirmwares(FALSE)
    \/ clear.pc = "reset" /\ clear'.pc = "idle"

\* when a delete or a clear-all does not succeed the selection stays, and
\* after a clear-all that succeeded nothing is selected
SelectionKeptOrCleared ==
    /\ [][ClearSucceedsStep => firmwareFile' = NoFile]_vars
    /\ [][(RemoveFailsStep \/ ClearFailsStep) => firmwareFile' = firmwareFile]_vars

\* C35: when a deleteFirmwareFromStorage(name) call returns after its delete
\* succeeded, the selection becomes none if the firmware selected at that
\* moment has the name and stays otherwise; after a confirmed clear-all that
\* succeeded nothing is selected; a failed delete, a failed or a declined
\* clear-all leave the selection as it is
C35_SelectionFollowsDelete ==
    /\ [][RemoveSucceedsStep =>
             firmwareFile' = IF firmwareFile = remove.name THEN NoFile
                             ELSE firmwareFile]_vars
    /\ SelectionKeptOrCleared

\* the downloadGithubFirmware call is in flight
InFlight(c) == download[c].pc # "idle"

\* C36: downloadingFirmware is non-null exactly when some downloadGithubFirmware
\* call is in flight, and then it is the name of a call in flight; the return
\* of one call does not clear it while another call is still in flight
C36_IndicatorIffInFlight ==
    /\ []((downloadingFirmware # NULL) <=> (\E c \in DOMAIN download : InFlight(c)))
    /\ [](downloadingFirmware # NULL =>
            \E c \in DOMAIN download :
               InFlight(c) /\ download[c].name = downloadingFirmware)
    /\ [][\A c \in DOMAIN download :
            (InFlight(c) /\ download'[c].pc = "idle"
               /\ \E k \in DOMAIN download : download'[k].pc # "idle") =>
               downloadingFirmware' # NULL]_vars

=============================================================================
